---- MODULE Spec2Model ----
(***************************************************************************)
(* Model of the capture / reconciliation pipeline of twitter_scrap:        *)
(*   mega_parse.py   parse_twitter_date, mega_parse                        *)
(*   api_xscrap.py   extract_tweet_data, parse_response,                   *)
(*                   parse_tweet_detail, fetch_incomplete_threads,         *)
(*                   scrape_profile                                        *)
(***************************************************************************)
EXTENDS Integers, Sequences, FiniteSets, TLC

(***************************************************************************)
(* Data domains.  Post ids are the platform's id_str strings; None is      *)
(* Python's None.  A created_at string is modelled by a number: NoDate for *)
(* a missing value, BadDate for a string strptime rejects, and 1..MaxTime  *)
(* for a well-formed date denoting that instant.                           *)
(***************************************************************************)
None == "None"

Ids == {"1", "2", "3"}

(* Ids that occur as a thread id (the id of a conversation module's first  *)
(* item).  Ids are only ever compared for equality, so two names cover     *)
(* every grouping of three posts into at most two threads.                 *)
ThreadIds == {"1", "2"}

MaxTime == 2

NoDate == 0

BadDate == -1

CreatedAts == {NoDate, BadDate} \cup (1..MaxTime)

TimelineText == "timeline"

DetailText == "detail"

(* The dictionary built by extract_tweet_data (the fields the pipeline     *)
(* reads), plus the 'thread' key that only mega_parse adds.                *)
Tweet(id, thread_id, created_at, full_text) ==
    [id |-> id, thread_id |-> thread_id, created_at |-> created_at,
     full_text |-> full_text, is_thread |-> (thread_id # None),
     is_pinned |-> FALSE, has_thread |-> FALSE, thread |-> <<>>]

(* Records as a timeline batch file holds them.                            *)
TimelineRecords ==
    {Tweet(i, t, c, TimelineText) :
        i \in Ids \cup {None}, t \in ThreadIds \cup {None}, c \in CreatedAts}

(* Records as fetch_incomplete_threads writes them into thread_<tid>_full: *)
(* every one is tagged with the unit's thread id.                          *)
DetailRecords(tid) ==
    {Tweet(i, tid, c, DetailText) : i \in Ids \cup {None}, c \in CreatedAts}

VARIABLES
    phase,           \* position of mega_parse
    all_tweets,      \* the dict all_tweets, as its values in insertion order
    file_thread_id,  \* thread id taken from the current thread file's name
    corpus,          \* the list written to <username>_mega_scrape.json
    seen_timeline,   \* history: ids loaded from a timeline batch unit
    seen_thread,     \* history: ids loaded at least once with is_thread
    seen_detail,     \* history: ids loaded from a thread-detail unit
    parser,          \* "timeline" (parse_response) or "detail" (parse_tweet_detail)
    ppc,             \* position of the parser
    parsed_tweets,   \* the list parsed_tweets
    incomplete_threads, \* the list incomplete_threads
    module,          \* the entry being parsed: "none", or a conversation
                     \* module whose thread id is "resolved" / "unresolved"
    module_thread_id, \* thread_id of the current conversation module
    items_left,      \* items of the current module not reached yet
    n_items,         \* len(items) of the current module
    n_all_tweet_ids, \* len(all_tweet_ids) of the current module
    tweet_res,       \* the object last handed to extract_tweet_data
    media_urls,      \* extract_tweet_data: media_urls
    variants,        \* extract_tweet_data: variants of the current video
    mpc,             \* position in the media loop of extract_tweet_data
    expected,        \* history: what the well-formed entries met so far hold
    cpc,             \* position of the capture run (scrape_profile)
    run,             \* number of capture runs started in this directory
    limit,           \* scrape_profile's limit
    batch_count,     \* scrape_profile: batch_count
    total_tweets,    \* scrape_profile: total_tweets
    incomplete_threads_queue, \* scrape_profile: incomplete_threads_queue
    fetch_todo,      \* fetch_incomplete_threads: thread ids not yet visited
    batch_files,     \* <n>_api_parsed.json, by n
    thread_files,    \* thread_<tid>_full.json, by tid
    target_user,     \* run_automator: target_user (mega_parse's username)
    output_file,     \* state of <username>_mega_scrape.json on disk
    output_run,      \* history: the run whose mega_parse wrote that file
    json_file,       \* what run_automator returned ("unset" while running)
    logged,          \* units an error line was printed for
    no_new_data_scrolls, \* scrape_profile: no_new_data_scrolls
    found_new_batch, \* scrape_profile: found_new_batch
    total_at_scan,   \* history: total_tweets when the current scan began
    idle_scans,      \* history: scans ended in a row that wrote no batch
    apc,             \* position of run_automator (api_xscrap)
    driver,          \* run_automator: driver (None or the driver object)
    browser,         \* the browser: "none", "open", "closed", or "dead"
                     \* (the session was lost and nothing is left to close)
    rpc,             \* position in start_scraping / handle_rate_limit
    isScroll,        \* twitter_login_scrape: _isScroll
    rate_limit_retries,        \* start_scraping: rate_limit_retries
    scroll_rate_limit_retries, \* start_scraping: scroll_rate_limit_retries
    retry_count,     \* handle_rate_limit: retry_count
    max_retries,     \* handle_rate_limit: max_retries
    wait_time,       \* handle_rate_limit: wait_time of the last wait
    recovered,       \* what handle_rate_limit returned last
    wpc,             \* position in the date-window loop of start_scraping
    current_date,    \* start_scraping: current_date, as a proleptic ordinal
    end_date,        \* start_scraping: end_date, as a proleptic ordinal
    total_collected, \* start_scraping: total_collected
    TOTAL_LIMIT,     \* start_scraping: TOTAL_LIMIT
    gpc,             \* position of the worker thread of App._on_start_click
    json_path,       \* run_scraper: json_path
    next_btn,        \* state of the start button
    pdf              \* PDF generation: "not_started", "done" or "failed"

recVars == <<phase, all_tweets, file_thread_id, corpus,
             seen_timeline, seen_thread, seen_detail>>

mediaVars == <<media_urls, variants, mpc>>

parseVars == <<parser, ppc, parsed_tweets, incomplete_threads, module,
               module_thread_id, items_left, n_items, n_all_tweet_ids,
               tweet_res, expected, mediaVars>>

capVars == <<cpc, run, limit, batch_count, total_tweets,
             incomplete_threads_queue, fetch_todo, batch_files, thread_files>>

autoVars == <<target_user, output_file, output_run, json_file, logged>>

loopVars == <<no_new_data_scrolls, found_new_batch, total_at_scan, idle_scans>>

driverVars == <<apc, driver, browser>>

rateVars == <<rpc, isScroll, rate_limit_retries, scroll_rate_limit_retries,
              retry_count, max_retries, wait_time, recovered>>

windowVars == <<wpc, current_date, end_date, total_collected, TOTAL_LIMIT>>

panelVars == <<gpc, json_path, next_btn, pdf>>

extVars == <<loopVars, driverVars, rateVars, windowVars, panelVars>>

vars == <<recVars, parseVars, capVars, autoVars, extVars>>

(***************************************************************************)
(* parse_twitter_date: datetime.min is a naive datetime, a parsed date     *)
(* (format with %z) is an aware one.                                       *)
(***************************************************************************)
datetime_min == [aware |-> FALSE, t |-> 0]

parse_twitter_date(date_str) ==
    IF date_str = NoDate THEN datetime_min
    ELSE IF date_str = BadDate THEN datetime_min
    ELSE [aware |-> TRUE, t |-> date_str]

SortKey(x) == parse_twitter_date(x.created_at)

(* datetime.__lt__ raises TypeError between a naive and an aware value;    *)
(* any sort of a list holding both kinds has to compare such a pair.       *)
SortRaises(list) ==
    \E i, j \in DOMAIN list : SortKey(list[i]).aware # SortKey(list[j]).aware

(* The per-thread sort left out.                                           *)
SortedAscSkipped(list) == list

RECURSIVE SortedAsc(_)
(* list.sort(key=...): stable, ascending.                                  *)
SortedAsc(list) ==
    IF list = <<>> THEN <<>>
    ELSE LET n == Len(list)
             x == list[n]
             s == SortedAsc(SubSeq(list, 1, n - 1))
             p == Cardinality({i \in DOMAIN s : SortKey(s[i]).t <= SortKey(x).t})
         IN  SubSeq(s, 1, p) \o <<x>> \o SubSeq(s, p + 1, Len(s))

RECURSIVE SortedDesc(_)
(* list.sort(key=..., reverse=True): stable, descending.                   *)
SortedDesc(list) ==
    IF list = <<>> THEN <<>>
    ELSE LET n == Len(list)
             x == list[n]
             s == SortedDesc(SubSeq(list, 1, n - 1))
             p == Cardinality({i \in DOMAIN s : SortKey(s[i]).t >= SortKey(x).t})
         IN  SubSeq(s, 1, p) \o <<x>> \o SubSeq(s, p + 1, Len(s))

(***************************************************************************)
(* The dict all_tweets: assignment replaces the value of a key that is     *)
(* present (its position is kept) and appends a new key.                   *)
(***************************************************************************)
DictIds(d) == {d[i].id : i \in DOMAIN d}

(* A list in place of the dict: every assignment appends.                  *)
DictSetAppends(d, tweet) == Append(d, tweet)

DictSet(d, tweet) ==
    IF tweet.id \in DictIds(d)
    THEN [i \in DOMAIN d |-> IF d[i].id = tweet.id THEN tweet ELSE d[i]]
    ELSE Append(d, tweet)

(* Loop body of step 1: "if tid: all_tweets[tid] = tweet".                 *)
MergeBatchTweet(d, tweet) ==
    IF tweet.id # None THEN DictSet(d, tweet) ELSE d

(* Loop body of step 2: a tweet without thread_id gets the file's.         *)
FixThreadId(tweet, ftid) ==
    IF tweet.thread_id = None
    THEN [tweet EXCEPT !.thread_id = ftid, !.is_thread = TRUE]
    ELSE tweet

(* setdefault in place of assignment: a key that is present is kept.       *)
MergeThreadTweetKeepsOld(d, tweet, ftid) ==
    IF tweet.id # None /\ tweet.id \notin DictIds(d)
    THEN DictSet(d, FixThreadId(tweet, ftid)) ELSE d

MergeThreadTweet(d, tweet, ftid) ==
    IF tweet.id # None THEN DictSet(d, FixThreadId(tweet, ftid)) ELSE d

(***************************************************************************)
(* Steps 3-5 of mega_parse.                                                *)
(***************************************************************************)
RECURSIVE GroupKeys(_)
(* Keys of thread_groups in insertion order.                               *)
GroupKeys(d) ==
    IF d = <<>> THEN <<>>
    ELSE LET n == Len(d)
             ks == GroupKeys(SubSeq(d, 1, n - 1))
             k == d[n].thread_id
         IN  IF k = None \/ (\E i \in DOMAIN ks : ks[i] = k) THEN ks
             ELSE Append(ks, k)

IsMember(tid, x) == x.thread_id = tid

ThreadGroup(d, tid) == SelectSeq(d, LAMBDA x : IsMember(tid, x))

IsStandalone(x) == x.thread_id = None

Standalone(d) == SelectSeq(d, IsStandalone)

(* A group without root nested under its oldest member.                    *)
ProcessGroupNestsUnderOldest(group, tid) ==
    LET sorted == SortedAsc(group)
        roots == SelectSeq(sorted, LAMBDA x : x.id = tid)
        replies == SelectSeq(sorted, LAMBDA x : x.id # tid)
    IN  IF roots # <<>>
        THEN <<[roots[1] EXCEPT !.thread = replies, !.has_thread = TRUE]>>
        ELSE <<[sorted[1] EXCEPT !.thread = Tail(sorted), !.has_thread = TRUE]>>

(* The whole group nested under the root, the root itself included.        *)
ProcessGroupNestsWholeGroup(group, tid) ==
    LET sorted == SortedAsc(group)
        roots == SelectSeq(sorted, LAMBDA x : x.id = tid)
    IN  IF roots # <<>>
        THEN <<[roots[1] EXCEPT !.thread = sorted, !.has_thread = TRUE]>>
        ELSE sorted

(* One iteration of "for tid, group in thread_groups.items()": what it     *)
(* adds to standalone_tweets.                                              *)
ProcessGroup(group, tid) ==
    LET sorted == SortedAsc(group)
        roots == SelectSeq(sorted, LAMBDA x : x.id = tid)
        replies == SelectSeq(sorted, LAMBDA x : x.id # tid)
    IN  IF roots # <<>>
        THEN <<[roots[1] EXCEPT !.thread = replies, !.has_thread = TRUE]>>
        ELSE sorted

RECURSIVE ProcessGroups(_, _)
ProcessGroups(d, keys) ==
    IF keys = <<>> THEN <<>>
    ELSE ProcessGroup(ThreadGroup(d, Head(keys)), Head(keys))
            \o ProcessGroups(d, Tail(keys))

StandaloneTweets(d) == Standalone(d) \o ProcessGroups(d, GroupKeys(d))

(* A sort of step 4 or step 5 raises TypeError, which mega_parse does not  *)
(* catch.                                                                  *)
GroupSortRaises(d) ==
    \E i \in DOMAIN GroupKeys(d) : SortRaises(ThreadGroup(d, GroupKeys(d)[i]))

FinalSortRaises(d) == SortRaises(StandaloneTweets(d))

MegaParseRaises(d) == GroupSortRaises(d) \/ FinalSortRaises(d)

FinalCorpus(d) == SortedDesc(StandaloneTweets(d))

(***************************************************************************)
(* File names, as the segments that str.split('_') gives.                  *)
(***************************************************************************)
Segments(username) ==
    IF username = "thread_x" THEN <<"thread", "x">> ELSE <<username>>

(* f"{batch_count + 1}_api_parsed.json"                                    *)
BatchName(n) == <<ToString(n), "api", "parsed.json">>

(* f"thread_{tid}_full.json"                                               *)
ThreadName(tid) == <<"thread", tid, "full.json">>

(* f"{username}_mega_scrape.json"                                          *)
OutputName(username) == Segments(username) \o <<"mega", "scrape.json">>

(* The request a failed getResponseBody is reported for.                   *)
RequestName == <<"request">>

(* filename.split('_')[0]                                                  *)
FileThreadIdFirstSegment(name) == name[1]

(* filename.split('_')[1]                                                  *)
FileThreadId(name) == name[2]

(***************************************************************************)
(* mega_parse as a process: one step per loaded record, one per opened     *)
(* thread file, one for steps 3-6.                                         *)
(***************************************************************************)
(* No object has been handed to extract_tweet_data.                        *)
NotCalled ==
    [empty |-> TRUE, typename |-> "NotCalled", tweet |-> "missing",
     legacy |-> "missing", id_str |-> None, created_at |-> NoDate,
     core |-> "missing"]

(* A file: not there, written in full, or cut short by an interrupted or   *)
(* failed json.dump (its text is then no JSON document).                   *)
AbsentFile == [state |-> "absent", tweets |-> <<>>]

PartialFile == [state |-> "partial", tweets |-> <<>>]

CompleteFile(tweets) == [state |-> "complete", tweets |-> tweets]

MaxBatchFiles == 2

CaptureIdle ==
    /\ cpc = "idle"
    /\ run = 0
    /\ limit = 0
    /\ batch_count = 0
    /\ total_tweets = 0
    /\ incomplete_threads_queue = {}
    /\ fetch_todo = {}
    /\ batch_files = [n \in 1..MaxBatchFiles |-> AbsentFile]
    /\ thread_files = [t \in ThreadIds |-> AbsentFile]

(* run_automator not entered; no corpus file in the directory.             *)
AutomatorIdle ==
    /\ target_user = "output"
    /\ output_file = "absent"
    /\ output_run = 0
    /\ json_file = "unset"
    /\ logged = {}

(* The while loop of scrape_profile not entered (lines 459-461).           *)
LoopIdle ==
    /\ no_new_data_scrolls = 0
    /\ found_new_batch = FALSE
    /\ total_at_scan = 0
    /\ idle_scans = 0

(* run_automator entered (lines 596-597): no driver, no browser.           *)
DriverIdle ==
    /\ apc = "start"
    /\ driver = None
    /\ browser = "none"

(* handle_rate_limit's default for max_retries (line 88).                  *)
default_max_retries == 5

(* twitter_login_scrape loaded (lines 22-24), start_scraping not yet in a  *)
(* date window.                                                            *)
RateIdle ==
    /\ rpc = "batch"
    /\ isScroll = FALSE
    /\ rate_limit_retries = 0
    /\ scroll_rate_limit_retries = 0
    /\ retry_count = 0
    /\ max_retries = default_max_retries
    /\ wait_time = 0
    /\ recovered = FALSE

(* start_scraping not entered.                                             *)
WindowIdle ==
    /\ wpc = "idle"
    /\ current_date = 1
    /\ end_date = 1
    /\ total_collected = 0
    /\ TOTAL_LIMIT = 0

(* The window of panel.py is up and the start button has not been clicked. *)
PanelIdle ==
    /\ gpc = "idle"
    /\ json_path = None
    /\ next_btn = "normal"
    /\ pdf = "not_started"

ExtIdle == LoopIdle /\ DriverIdle /\ RateIdle /\ WindowIdle /\ PanelIdle

ParseIdle ==
    /\ parser = "timeline"
    /\ ppc = "idle"
    /\ parsed_tweets = <<>>
    /\ incomplete_threads = <<>>
    /\ module = "none"
    /\ module_thread_id = None
    /\ items_left = 0
    /\ n_items = 0
    /\ n_all_tweet_ids = 0
    /\ tweet_res = NotCalled
    /\ expected = <<>>
    /\ media_urls = <<>>
    /\ variants = <<>>
    /\ mpc = "media"

RecInit ==
    /\ ExtIdle
    /\ ParseIdle
    /\ CaptureIdle
    /\ AutomatorIdle
    /\ phase = "batches"
    /\ all_tweets = <<>>
    /\ file_thread_id = None
    /\ corpus = <<>>
    /\ seen_timeline = {}
    /\ seen_thread = {}
    /\ seen_detail = {}

NoteThread(tweet) ==
    seen_thread' = IF tweet.id # None /\ tweet.is_thread
                   THEN seen_thread \cup {tweet.id} ELSE seen_thread

(* for tweet in tweets (a timeline batch file)                             *)
LoadBatchTweet ==
    /\ phase = "batches"
    /\ \E tweet \in TimelineRecords :
          /\ all_tweets' = MergeBatchTweet(all_tweets, tweet)
          /\ NoteThread(tweet)
          /\ seen_timeline' = IF tweet.id # None
                              THEN seen_timeline \cup {tweet.id}
                              ELSE seen_timeline
    /\ UNCHANGED <<phase, file_thread_id, corpus, seen_detail, parseVars, capVars, autoVars, extVars>>

(* for fpath in thread_files: file_thread_id = filename.split('_')[1]      *)
OpenThreadFile ==
    /\ phase \in {"batches", "threads"}
    /\ \E tid \in ThreadIds : file_thread_id' = FileThreadId(ThreadName(tid))
    /\ phase' = "threads"
    /\ UNCHANGED <<all_tweets, corpus, seen_timeline, seen_thread, seen_detail,
                   parseVars, capVars, autoVars, extVars>>

(* for tweet in tweets (a thread-detail file)                              *)
LoadThreadTweet ==
    /\ phase = "threads"
    /\ \E tweet \in DetailRecords(file_thread_id) :
          /\ all_tweets' = MergeThreadTweet(all_tweets, tweet, file_thread_id)
          /\ NoteThread(tweet)
          /\ seen_detail' = IF tweet.id # None THEN seen_detail \cup {tweet.id}
                            ELSE seen_detail
    /\ UNCHANGED <<phase, file_thread_id, corpus, seen_timeline, parseVars, capVars, autoVars, extVars>>

(* Steps 3-6: group, nest, sort, save; or the uncaught TypeError.          *)
Finish ==
    /\ phase \in {"batches", "threads"}
    /\ IF MegaParseRaises(all_tweets)
       THEN /\ phase' = "raised"
            /\ corpus' = corpus
       ELSE /\ phase' = "saved"
            /\ corpus' = FinalCorpus(all_tweets)
    /\ UNCHANGED <<all_tweets, file_thread_id, seen_timeline, seen_thread,
                   seen_detail, parseVars, capVars, autoVars, extVars>>

RecNext == LoadBatchTweet \/ OpenThreadFile \/ LoadThreadTweet \/ Finish

SpecReconcile == RecInit /\ [][RecNext]_vars

(***************************************************************************)
(* Properties of reconciliation.                                           *)
(***************************************************************************)
RECURSIVE Flatten(_)
(* Every record of a corpus: each top-level record, then its thread.       *)
Flatten(c) ==
    IF c = <<>> THEN <<>>
    ELSE <<Head(c)>> \o Head(c).thread \o Flatten(Tail(c))

Saved == phase = "saved"

TopLevelIds(c) == {c[i].id : i \in DOMAIN c}

(* The bucket of thread tid holds its root.                                *)
HasRoot(d, tid) ==
    \E i \in DOMAIN d : d[i].thread_id = tid /\ d[i].id = tid

BucketReplies(d, tid) ==
    {d[i] : i \in {j \in DOMAIN d : d[j].thread_id = tid /\ d[j].id # tid}}

(* C1: once the corpus is written, no two of its records, top-level or     *)
(* nested in a thread sequence, share an id.                               *)
C1_UniqueIds ==
    Saved =>
        LET f == Flatten(corpus)
        IN  \A i, j \in DOMAIN f : i # j => f[i].id # f[j].id

(* A written corpus with a nested reply, built from loads in which one id  *)
(* came in more than one version (tagged once, kept untagged).             *)
C1_Witness ==
    /\ Saved
    /\ \E i \in DOMAIN corpus : corpus[i].thread # <<>>
    /\ \E i \in DOMAIN corpus :
          corpus[i].id \in seen_thread /\ ~corpus[i].is_thread

(* C2: reconciliation never ends in an uncaught exception, whatever mix of *)
(* valid and malformed created_at values the loaded records carry.         *)
C2_NeverRaises == phase # "raised"

(* C4: a record loaded from a thread-detail unit is the version kept, in   *)
(* the merged map and in the written corpus, also when timeline batches    *)
(* hold the same id.                                                       *)
C4_ThreadPrecedence ==
    /\ \A i \in DOMAIN all_tweets :
          all_tweets[i].id \in seen_detail =>
              all_tweets[i].full_text = DetailText
    /\ Saved =>
          LET f == Flatten(corpus)
          IN  /\ seen_detail \subseteq {f[i].id : i \in DOMAIN f}
              /\ \A i \in DOMAIN f :
                    f[i].id \in seen_detail => f[i].full_text = DetailText

(* A written corpus holding an id that both kinds of unit contained.       *)
C4_Witness ==
    /\ Saved
    /\ \E i \in DOMAIN corpus :
          /\ corpus[i].id \in seen_detail \cap seen_timeline
          /\ corpus[i].full_text = DetailText

(* C5: an id loaded at least once with is_thread = true has is_thread =    *)
(* true in the merged map and in the written corpus.                       *)
C5_IsThreadMonotonic ==
    /\ \A i \in DOMAIN all_tweets :
          all_tweets[i].id \in seen_thread => all_tweets[i].is_thread
    /\ Saved =>
          LET f == Flatten(corpus)
          IN  \A i \in DOMAIN f : f[i].id \in seen_thread => f[i].is_thread

Bucket(d, tid) == {d[i] : i \in {j \in DOMAIN d : d[j].thread_id = tid}}

ValidDate(x) == x.created_at \notin {NoDate, BadDate}

(* The list is in descending created_at order with every record without a  *)
(* valid date behind every record with one.                                *)
NewestFirst(c) ==
    /\ \A i \in 1..(Len(c) - 1) :
          (ValidDate(c[i]) /\ ValidDate(c[i + 1])) =>
              c[i].created_at >= c[i + 1].created_at
    /\ \A i, j \in DOMAIN c :
          (ValidDate(c[i]) /\ ~ValidDate(c[j])) => i < j

(* C12: when reconciliation has ended, the corpus holds the top-level      *)
(* records newest first, those without a valid created_at last.            *)
C12_FinalOrdering ==
    phase \in {"saved", "raised"} =>
        /\ Len(corpus) = Len(StandaloneTweets(all_tweets))
        /\ NewestFirst(corpus)

(* C22: in a written corpus every record nested in a thread sequence has   *)
(* the thread_id of the record it is nested under and another id; only a   *)
(* record whose id is its thread_id was given a thread sequence; and a      *)
(* nested record was given none.                                           *)
C22_NestingShape ==
    Saved =>
        \A i \in DOMAIN corpus :
            /\ (corpus[i].has_thread \/ corpus[i].thread # <<>>) =>
                    corpus[i].id = corpus[i].thread_id
            /\ \A k \in DOMAIN corpus[i].thread :
                  /\ corpus[i].thread[k].thread_id = corpus[i].id
                  /\ corpus[i].thread[k].id # corpus[i].id
                  /\ ~corpus[i].thread[k].has_thread
                  /\ corpus[i].thread[k].thread = <<>>

(* A written corpus with a root that holds a nested reply, beside a        *)
(* top-level reply of another thread whose root was not loaded.            *)
C22_Witness ==
    /\ Saved
    /\ \E i, j \in DOMAIN corpus :
          /\ corpus[i].thread # <<>>
          /\ corpus[j].thread_id \notin {None, corpus[j].id, corpus[i].id}
          /\ ~corpus[j].has_thread

(* The ids of a corpus, top-level and nested.                              *)
CorpusIds(c) == {Flatten(c)[i].id : i \in DOMAIN Flatten(c)}

(* C21: when reconciliation has ended, the ids of the corpus, top-level    *)
(* and nested, are exactly the non-empty ids that were loaded from timeline *)
(* batch and thread-detail units.                                          *)
C21_Conservation ==
    phase \in {"saved", "raised"} =>
        CorpusIds(corpus) = seen_timeline \cup seen_detail

(***************************************************************************)
(* Raw API objects.  A tweet_results.result object is described by the     *)
(* keys the extractor reads: whether it is the empty dict, its __typename, *)
(* the 'tweet' key of a TweetWithVisibilityResults wrapper, the 'legacy'   *)
(* block with id_str and created_at, and the 'core' (author) block.        *)
(***************************************************************************)
RawIds == ThreadIds

(* legacy.created_at: each post has its own date, post "2" the later one.  *)
RawDate(id_str) == IF id_str = "2" THEN 2 ELSE 1

RawResult(empty, typename, tweet, legacy, id_str, core) ==
    [empty |-> empty, typename |-> typename, tweet |-> tweet,
     legacy |-> legacy, id_str |-> id_str, created_at |-> RawDate(id_str),
     core |-> core]

EmptyResult == RawResult(TRUE, "None", "missing", "missing", None, "missing")

PlainResult(id) == RawResult(FALSE, "Tweet", "missing", "object", id, "object")

WrappedResult(id) ==
    RawResult(FALSE, "TweetWithVisibilityResults", "object", "object", id, "object")

WrapperWithoutTweet ==
    RawResult(FALSE, "TweetWithVisibilityResults", "missing", "missing", None, "missing")

WrapperWithNullTweet ==
    RawResult(FALSE, "TweetWithVisibilityResults", "null", "missing", None, "missing")

Tombstone == RawResult(FALSE, "TweetTombstone", "missing", "missing", None, "missing")

NullCoreResult(id) == RawResult(FALSE, "Tweet", "missing", "object", id, "null")

RawResults ==
    {EmptyResult, WrapperWithoutTweet, WrapperWithNullTweet, Tombstone}
        \cup {PlainResult(i) : i \in RawIds \cup {None}}
        \cup {WrappedResult(i) : i \in RawIds}
        \cup {NullCoreResult(i) : i \in {"1"}}

(* extract_tweet_data: [raised, found, tweet]; raised stands for the       *)
(* AttributeError of calling .get on None, found = FALSE for "return None".*)
NoTweet == Tweet(None, None, NoDate, TimelineText)

Extracted(tweet) == [raised |-> FALSE, found |-> TRUE, tweet |-> tweet]

ExtractedNone == [raised |-> FALSE, found |-> FALSE, tweet |-> NoTweet]

ExtractRaised == [raised |-> TRUE, found |-> FALSE, tweet |-> NoTweet]

extract_tweet_data(tweet_result, thread_id) ==
    IF tweet_result.empty THEN ExtractedNone
    ELSE IF tweet_result.typename = "TweetWithVisibilityResults"
            /\ tweet_result.tweet = "null"
    THEN ExtractRaised
    ELSE IF tweet_result.typename = "TweetWithVisibilityResults"
            /\ tweet_result.tweet = "missing"
    THEN ExtractedNone
    ELSE IF tweet_result.legacy = "missing" THEN ExtractedNone
    ELSE IF tweet_result.core = "null" THEN ExtractRaised
    ELSE Extracted(Tweet(tweet_result.id_str, thread_id,
                         tweet_result.created_at, TimelineText))

(***************************************************************************)
(* Media of a post, lines 200-216.  A variant of a video is its            *)
(* content_type, its bitrate (NoBitrate when the key is missing) and its   *)
(* url, which is its place in the list.                                    *)
(***************************************************************************)
MaxVariants == 3

MaxBitrate == 2

MaxMedia == 1

NoBitrate == -1

PhotoUrl == 0

ContentTypes == {"video/mp4", "application/x-mpegURL"}

Variant(content_type, bitrate, url) ==
    [content_type |-> content_type, bitrate |-> bitrate, url |-> url]

(* The variants that may stand at place n of a list.                       *)
Variants(n) ==
    {Variant(c, b, n) :
        c \in ContentTypes, b \in {NoBitrate} \cup (0..MaxBitrate)}

(* key=lambda x: x.get('bitrate', 0)                                       *)
BitrateKey(v) == IF v.bitrate = NoBitrate THEN 0 ELSE v.bitrate

IsMp4(v) == v.content_type = "video/mp4"

RECURSIVE MaxByKey(_, _)
(* max(list, key=...) from the second element on: a later element         *)
(* replaces the best one only when its key is greater.                     *)
MaxByKey(best, list) ==
    IF list = <<>> THEN best
    ELSE MaxByKey(IF BitrateKey(Head(list)) > BitrateKey(best)
                  THEN Head(list) ELSE best,
                  Tail(list))

(* max over all variants, whatever their content type.                     *)
BestVariantAnyType(vs) ==
    IF vs = <<>> THEN <<>> ELSE <<MaxByKey(Head(vs), Tail(vs))>>

(* Lines 210-214: <<>> stands for the default None.                        *)
BestVariant(vs) ==
    LET mp4 == SelectSeq(vs, IsMp4)
    IN  IF mp4 = <<>> THEN <<>> ELSE <<MaxByKey(Head(mp4), Tail(mp4))>>

(***************************************************************************)
(* Timeline entries: a TimelineTimelineItem with one result, a             *)
(* TimelineTimelineModule with its items and the length of                 *)
(* conversationMetadata.allTweetIds, or another entry type (a cursor).     *)
(***************************************************************************)
MaxItems == 2

MaxAllTweetIds == 3

ItemEntry(res) ==
    [entryType |-> "TimelineTimelineItem", items |-> <<res>>, n_all_tweet_ids |-> 0]

ModuleEntry(items, n) ==
    [entryType |-> "TimelineTimelineModule", items |-> items, n_all_tweet_ids |-> n]

CursorEntry ==
    [entryType |-> "TimelineTimelineCursor", items |-> <<>>, n_all_tweet_ids |-> 0]

ItemLists == UNION {[1..n -> RawResults] : n \in 0..MaxItems}

Entries ==
    {CursorEntry}
        \cup {ItemEntry(r) : r \in RawResults}
        \cup {ModuleEntry(items, n) : items \in ItemLists, n \in 0..MaxAllTweetIds}

(* The accumulators of a parser and whether an exception has ended it.     *)
Acc(tweets, incomplete, raised) ==
    [tweets |-> tweets, incomplete |-> incomplete, raised |-> raised]

(* "tweet_data = extract_tweet_data(...); if tweet_data: append"           *)
ExtractInto(acc, res, thread_id, pinned) ==
    LET x == extract_tweet_data(res, thread_id)
    IN  IF acc.raised THEN acc
        ELSE IF x.raised THEN [acc EXCEPT !.raised = TRUE]
        ELSE IF x.found
        THEN [acc EXCEPT !.tweets =
                 Append(@, [x.tweet EXCEPT !.is_pinned = pinned])]
        ELSE acc

RECURSIVE ExtractItems(_, _, _)
(* "for item in items": stops at the first exception.                      *)
ExtractItems(acc, items, thread_id) ==
    IF items = <<>> \/ acc.raised THEN acc
    ELSE ExtractItems(ExtractInto(acc, Head(items), thread_id, FALSE),
                      Tail(items), thread_id)

(* Lines 302-309: the thread id is the id_str of the first item.           *)
FirstItemRaises(items) ==
    /\ items # <<>>
    /\ ~items[1].empty
    /\ items[1].typename = "TweetWithVisibilityResults"
    /\ items[1].tweet = "null"

FirstItemId(items) ==
    IF items = <<>> THEN None
    ELSE IF items[1].empty THEN None
    ELSE IF items[1].typename = "TweetWithVisibilityResults"
            /\ items[1].tweet = "missing"
    THEN None
    ELSE IF items[1].legacy = "missing" THEN None
    ELSE items[1].id_str

(* "<=" in place of "<" in the test of line 313.                           *)
ModuleHeadAtMost(acc, first, n, n_all) ==
    IF FirstItemRaises(first) THEN [acc EXCEPT !.raised = TRUE]
    ELSE IF n <= n_all /\ FirstItemId(first) # None
    THEN [acc EXCEPT !.incomplete = Append(@, FirstItemId(first))]
    ELSE acc

(* Lines 295-315: thread id and completeness of one conversation module,  *)
(* given its first item (if any), its length and len(allTweetIds).         *)
ModuleHead(acc, first, n, n_all) ==
    IF FirstItemRaises(first) THEN [acc EXCEPT !.raised = TRUE]
    ELSE IF n < n_all /\ FirstItemId(first) # None
    THEN [acc EXCEPT !.incomplete = Append(@, FirstItemId(first))]
    ELSE acc

(* Lines 294-323: one conversation module.                                 *)
ParseModule(acc, entry) ==
    ExtractItems(ModuleHead(acc, SubSeq(entry.items, 1, 1),
                            Len(entry.items), entry.n_all_tweet_ids),
                 entry.items, FirstItemId(entry.items))

(* Lines 282-323: one entry of a TimelineAddEntries instruction.           *)
ParseEntry(acc, entry) ==
    IF acc.raised THEN acc
    ELSE IF entry.entryType = "TimelineTimelineItem"
    THEN ExtractInto(acc, entry.items[1], None, FALSE)
    ELSE IF entry.entryType = "TimelineTimelineModule"
    THEN ParseModule(acc, entry)
    ELSE acc

(* Lines 269-276: a TimelinePinEntry instruction.                          *)
ParsePin(acc, res) ==
    IF acc.raised THEN acc ELSE ExtractInto(acc, res, None, TRUE)

(* Lines 340-357: one entry, for parse_tweet_detail.                       *)
ParseDetailEntry(acc, entry) ==
    IF acc.raised THEN acc
    ELSE IF entry.entryType \in {"TimelineTimelineItem", "TimelineTimelineModule"}
    THEN ExtractItems(acc, entry.items, None)
    ELSE acc

(***************************************************************************)
(* The parsers as processes that meet the results of one response one by   *)
(* one.  After the exception handler of the enclosing try has run, the     *)
(* results that remain in the response are never looked at.                *)
(***************************************************************************)
MaxParsed == 2

(* What a result holds for a parser that isolates failures per item.       *)
WellFormed(res, thread_id, pinned) ==
    LET x == extract_tweet_data(res, thread_id)
    IN  IF x.found THEN <<[x.tweet EXCEPT !.is_pinned = pinned]>> ELSE <<>>

CurrentAcc == Acc(parsed_tweets, incomplete_threads, ppc = "caught")

SetAcc(acc) ==
    /\ parsed_tweets' = acc.tweets
    /\ incomplete_threads' = acc.incomplete
    /\ ppc' = IF acc.raised THEN "caught" ELSE "parsing"

Expect(holds) ==
    /\ Len(expected) + Len(holds) <= MaxParsed
    /\ expected' = expected \o holds

ParseInit ==
    /\ ExtIdle
    /\ CaptureIdle
    /\ AutomatorIdle
    /\ phase = "idle"
    /\ all_tweets = <<>>
    /\ file_thread_id = None
    /\ corpus = <<>>
    /\ seen_timeline = {}
    /\ seen_thread = {}
    /\ seen_detail = {}
    /\ parser \in {"timeline", "detail"}
    /\ ppc = "parsing"
    /\ parsed_tweets = <<>>
    /\ incomplete_threads = <<>>
    /\ module = "none"
    /\ module_thread_id = None
    /\ items_left = 0
    /\ n_items = 0
    /\ n_all_tweet_ids = 0
    /\ tweet_res = NotCalled
    /\ expected = <<>>
    /\ media_urls = <<>>
    /\ variants = <<>>
    /\ mpc = "media"

(* parse_response reaches a TimelinePinEntry instruction.                  *)
PinEntryStep ==
    /\ parser = "timeline"
    /\ ppc = "parsing"
    /\ items_left = 0
    /\ \E res \in RawResults :
          /\ SetAcc(ParsePin(CurrentAcc, res))
          /\ Expect(WellFormed(res, None, TRUE))
          /\ tweet_res' = res
    /\ module' = "none"
    /\ module_thread_id' = None
    /\ n_items' = 0
    /\ n_all_tweet_ids' = 0
    /\ UNCHANGED <<mediaVars, parser, items_left, recVars, capVars, autoVars, extVars>>

(* parse_response reaches a TimelineTimelineItem entry.                    *)
ItemEntryStep ==
    /\ parser = "timeline"
    /\ ppc = "parsing"
    /\ items_left = 0
    /\ \E res \in RawResults :
          /\ SetAcc(ParseEntry(CurrentAcc, ItemEntry(res)))
          /\ Expect(WellFormed(res, None, FALSE))
          /\ tweet_res' = res
    /\ module' = "none"
    /\ module_thread_id' = None
    /\ n_items' = 0
    /\ n_all_tweet_ids' = 0
    /\ UNCHANGED <<mediaVars, parser, items_left, recVars, capVars, autoVars, extVars>>

(* parse_response reaches a TimelineTimelineModule entry: lines 295-315    *)
(* and, when the module has items, the first round of the loop of 317-323. *)
OpenModuleStep ==
    /\ parser = "timeline"
    /\ ppc = "parsing"
    /\ items_left = 0
    /\ \E n \in 0..MaxItems, n_all \in 0..MaxAllTweetIds,
          res \in RawResults :
          LET first == IF n = 0 THEN <<>> ELSE <<res>>
              tid == FirstItemId(first)
              head == ModuleHead(CurrentAcc, first, n, n_all)
          IN  /\ SetAcc(ExtractItems(head, first, tid))
              /\ Expect(IF n = 0 THEN <<>>
                        ELSE WellFormed(res, tid, FALSE))
              /\ module' = IF tid # None THEN "resolved" ELSE "unresolved"
              /\ module_thread_id' = tid
              /\ items_left' = IF n = 0 THEN 0 ELSE n - 1
              /\ n_items' = n
              /\ n_all_tweet_ids' = n_all
              /\ tweet_res' = IF n = 0 \/ FirstItemRaises(first)
                                 THEN NotCalled ELSE res
    /\ UNCHANGED <<mediaVars, parser, recVars, capVars, autoVars, extVars>>

(* One further round of "for item in items" of the current module.         *)
ModuleItemStep ==
    /\ parser = "timeline"
    /\ ppc = "parsing"
    /\ items_left > 0
    /\ \E res \in RawResults :
          /\ SetAcc(ExtractItems(CurrentAcc, <<res>>, module_thread_id))
          /\ Expect(WellFormed(res, module_thread_id, FALSE))
          /\ tweet_res' = res
    /\ items_left' = items_left - 1
    /\ UNCHANGED <<mediaVars, parser, module, module_thread_id, n_items, n_all_tweet_ids,
                   recVars, capVars, autoVars, extVars>>

(* parse_tweet_detail reaches a result (an item entry, or an item of a     *)
(* module: both are extracted without a thread id).                        *)
DetailItemStep ==
    /\ parser = "detail"
    /\ ppc = "parsing"
    /\ \E res \in RawResults :
          /\ SetAcc(ParseDetailEntry(CurrentAcc, ItemEntry(res)))
          /\ Expect(WellFormed(res, None, FALSE))
          /\ tweet_res' = res
    /\ UNCHANGED <<mediaVars, parser, module, module_thread_id, items_left, n_items,
                   n_all_tweet_ids, recVars, capVars, autoVars, extVars>>

(* A well-formed result that follows the one whose exception ended the     *)
(* loops: in the rest of the current module, or in a later item entry.     *)
UnreadResult ==
    /\ ppc = "caught"
    /\ \E res \in RawResults :
          LET holds == WellFormed(res, IF items_left > 0 THEN module_thread_id
                                       ELSE None, FALSE)
          IN  /\ holds # <<>>
              /\ Expect(holds)
    /\ items_left' = IF items_left > 0 THEN items_left - 1 ELSE 0
    /\ UNCHANGED <<mediaVars, parser, ppc, parsed_tweets, incomplete_threads, module,
                   module_thread_id, n_items, n_all_tweet_ids, tweet_res,
                   recVars, capVars, autoVars, extVars>>

(* "return parsed_tweets, incomplete_threads" / "return parsed_tweets"     *)
ParserReturns ==
    /\ ppc \in {"parsing", "caught"}
    /\ ppc = "parsing" => items_left = 0
    /\ ppc' = IF ppc = "caught" THEN "returned_after_error" ELSE "returned"
    /\ UNCHANGED <<mediaVars, parser, parsed_tweets, incomplete_threads, module,
                   module_thread_id, items_left, n_items, n_all_tweet_ids,
                   tweet_res, expected, recVars, capVars, autoVars, extVars>>

ParseNext ==
    PinEntryStep \/ ItemEntryStep \/ OpenModuleStep \/ ModuleItemStep
        \/ DetailItemStep \/ UnreadResult \/ ParserReturns

SpecParse == ParseInit /\ [][ParseNext]_vars

Returned == ppc \in {"returned", "returned_after_error"}

(* C8: when a parser returns, every well-formed result of the response is  *)
(* in the returned list, in order, whether or not another result failed.   *)
C8_FaultIsolation == Returned => parsed_tweets = expected

(* C9: while the current entry is a conversation module whose first item   *)
(* gives no post id, no step adds a post or an incomplete thread id.       *)
C9_UnresolvedModuleSkipped ==
    [][module' = "unresolved" =>
          /\ parsed_tweets' = parsed_tweets
          /\ incomplete_threads' = incomplete_threads]_vars

(* parse_response comes to a conversation module in this step.             *)
OpensModule ==
    /\ parser = "timeline"
    /\ ppc = "parsing"
    /\ items_left = 0
    /\ ppc' \in {"parsing", "caught"}
    /\ module' # "none"

AppendsPost ==
    /\ parser = "timeline"
    /\ Len(parsed_tweets') = Len(parsed_tweets) + 1

(* C18: a post that parse_response appends while it is in a conversation   *)
(* module has the id of the module's first item as thread_id and is_thread *)
(* true; a post appended for a single-item entry or the pinned entry has   *)
(* no thread_id and is_thread false; is_pinned is true for the post of the *)
(* pinned entry and for no other; no appended post has a thread sequence.  *)
C18_ThreadTagging ==
    [][AppendsPost =>
          LET post == parsed_tweets'[Len(parsed_tweets')]
              met == expected'[Len(expected')]
          IN  /\ module' # "none" =>
                    /\ post.thread_id = module_thread_id'
                    /\ post.thread_id # None
                    /\ post.is_thread
                    /\ ~post.is_pinned
              /\ module' = "none" =>
                    /\ post.thread_id = None
                    /\ ~post.is_thread
                    /\ post.is_pinned = met.is_pinned
              /\ post.thread = <<>>
              /\ ~post.has_thread]_vars

(* The object, unwrapped if it is a TweetWithVisibilityResults wrapper      *)
(* with an inner post, has the legacy block.                               *)
HasLegacy(res) ==
    /\ ~res.empty
    /\ res.typename = "TweetWithVisibilityResults" => res.tweet = "object"
    /\ res.legacy = "object"

(* extract_tweet_data is called in this step.                              *)
Extracts ==
    /\ ppc = "parsing"
    /\ ppc' \in {"parsing", "caught"}
    /\ tweet_res'.typename # "NotCalled"

(* C19: a call of extract_tweet_data does not raise; for an object with    *)
(* the legacy block (after unwrapping) it gives a record with the object's *)
(* id, which the parser appends, and for any other object it gives None    *)
(* and nothing is appended.                                                *)
C19_ExtractNeverRaises ==
    [][Extracts =>
          /\ ppc' # "caught"
          /\ IF HasLegacy(tweet_res')
             THEN /\ Len(parsed_tweets') = Len(parsed_tweets) + 1
                  /\ parsed_tweets'[Len(parsed_tweets')].id =
                         tweet_res'.id_str
             ELSE parsed_tweets' = parsed_tweets]_vars

(***************************************************************************)
(* parse_response and parse_tweet_detail on a whole response: the list of  *)
(* instructions, each a TimelinePinEntry with its result or a              *)
(* TimelineAddEntries with its entries.                                    *)
(***************************************************************************)
PinInstruction(res) ==
    [type |-> "TimelinePinEntry", result |-> <<res>>, entries |-> <<>>]

AddEntries(entries) ==
    [type |-> "TimelineAddEntries", result |-> <<>>, entries |-> entries]

RECURSIVE ParseEntries(_, _)
ParseEntries(acc, entries) ==
    IF entries = <<>> THEN acc
    ELSE ParseEntries(ParseEntry(acc, Head(entries)), Tail(entries))

ParseInstruction(acc, instruction) ==
    IF instruction.type = "TimelinePinEntry"
    THEN ParsePin(acc, instruction.result[1])
    ELSE IF instruction.type = "TimelineAddEntries"
    THEN ParseEntries(acc, instruction.entries)
    ELSE acc

RECURSIVE ParseInstructions(_, _)
ParseInstructions(acc, instructions) ==
    IF instructions = <<>> THEN acc
    ELSE ParseInstructions(ParseInstruction(acc, Head(instructions)),
                           Tail(instructions))

parse_response(instructions) ==
    ParseInstructions(Acc(<<>>, <<>>, FALSE), instructions)

RECURSIVE ParseDetailEntries(_, _)
ParseDetailEntries(acc, entries) ==
    IF entries = <<>> THEN acc
    ELSE ParseDetailEntries(ParseDetailEntry(acc, Head(entries)), Tail(entries))

parse_tweet_detail(entries) ==
    ParseDetailEntries(Acc(<<>>, <<>>, FALSE), entries).tweets

(***************************************************************************)
(* The capture run: scrape_profile, then fetch_incomplete_threads, over    *)
(* the files of the working directory, which outlive a run.                *)
(***************************************************************************)
MaxLimit == 2

MaxRuns == 2

(* Responses the browser may deliver to a capture run.                     *)
CaptureEntries ==
    {ItemEntry(PlainResult(i)) : i \in RawIds}
        \cup {ModuleEntry(<<PlainResult("1"), PlainResult("2")>>, n) : n \in {2, 3}}
        \cup {ModuleEntry(<<NullCoreResult("1")>>, 2)}

CaptureResponses == {<<AddEntries(<<e>>)>> : e \in CaptureEntries}

DetailResponses ==
    {<<ItemEntry(PlainResult("1"))>>,
     <<ItemEntry(PlainResult("1")), ItemEntry(PlainResult("2"))>>}

RECURSIVE SeqIds(_)
SeqIds(tweets) ==
    IF tweets = <<>> THEN {} ELSE {Head(tweets).id} \cup SeqIds(Tail(tweets))

RECURSIVE SeqToSet(_)
SeqToSet(q) == IF q = <<>> THEN {} ELSE {Head(q)} \cup SeqToSet(Tail(q))

(* The batch written as parsed, whatever the remaining count.              *)
TruncatedNever(new_tweets, remaining) == new_tweets

(* Lines 507-512: cut the batch to the remaining count.                    *)
Truncated(new_tweets, remaining) ==
    IF Len(new_tweets) > remaining THEN SubSeq(new_tweets, 1, remaining)
    ELSE new_tweets

KeptIncomplete(new_tweets, incomplete_ids, remaining) ==
    IF new_tweets # <<>> /\ Len(new_tweets) > remaining
    THEN {tid \in SeqToSet(incomplete_ids) :
             tid \in SeqIds(Truncated(new_tweets, remaining))}
    ELSE SeqToSet(incomplete_ids)

(* Lines 408-411: every tweet of a backfilled thread gets the thread id.   *)
RECURSIVE Tagged(_, _)
Tagged(tweets, tid) ==
    IF tweets = <<>> THEN <<>>
    ELSE <<[Head(tweets) EXCEPT !.thread_id = tid, !.is_thread = TRUE,
                                !.full_text = DetailText]>>
            \o Tagged(Tail(tweets), tid)

Usernames == {"output", "thread_x"}

CaptureInit ==
    /\ ExtIdle
    /\ ParseIdle
    /\ phase = "idle"
    /\ all_tweets = <<>>
    /\ file_thread_id = None
    /\ corpus = <<>>
    /\ seen_timeline = {}
    /\ seen_thread = {}
    /\ seen_detail = {}
    /\ cpc = "idle"
    /\ run = 0
    /\ limit \in 1..MaxLimit
    /\ batch_count = 0
    /\ total_tweets = 0
    /\ incomplete_threads_queue = {}
    /\ fetch_todo = {}
    /\ batch_files = [n \in 1..MaxBatchFiles |-> AbsentFile]
    /\ thread_files = [t \in ThreadIds |-> AbsentFile]
    /\ target_user \in Usernames
    /\ output_file = "absent"
    /\ output_run = 0
    /\ json_file = "unset"
    /\ logged = {}

(* run_automator returns None before scraping: load_credentials gave      *)
(* nothing (lines 603-606), login failed (621-623), or setup_driver or     *)
(* login raised (646-648).  It is a new process, as in StartRun.           *)
AutomatorGivesUp ==
    /\ cpc \in {"idle", "interrupted", "returned"}
    /\ run < MaxRuns
    /\ run' = run + 1
    /\ cpc' = "returned"
    /\ phase' = "idle"
    /\ all_tweets' = <<>>
    /\ json_file' = None
    /\ logged' = {}
    /\ UNCHANGED <<limit, batch_count, total_tweets, incomplete_threads_queue,
                   fetch_todo, batch_files, thread_files, file_thread_id,
                   corpus, seen_timeline, seen_thread, seen_detail, parseVars,
                   target_user, output_file, output_run, extVars>>

(* scrape_profile is entered (lines 452-461): a first run, or a run        *)
(* started again in the same directory after the previous one ended or     *)
(* was interrupted.  It is a new process: nothing is left of the memory    *)
(* and the output of the previous one.                                     *)
StartRun ==
    /\ cpc \in {"idle", "interrupted", "returned"}
    /\ run < MaxRuns
    /\ run' = run + 1
    /\ cpc' = "scanning"
    /\ batch_count' = 0
    /\ total_tweets' = 0
    /\ incomplete_threads_queue' = {}
    /\ fetch_todo' = {}
    /\ phase' = "idle"
    /\ all_tweets' = <<>>
    /\ json_file' = "unset"
    /\ logged' = {}
    /\ UNCHANGED <<limit, batch_files, thread_files, file_thread_id,
                   corpus, seen_timeline, seen_thread, seen_detail, parseVars,
                   target_user, output_file, output_run, extVars>>

(* Lines 485-541 for one new UserTweets response, all writes succeeding.   *)
HandleResponse ==
    /\ cpc = "scanning"
    /\ total_tweets < limit
    /\ batch_count < MaxBatchFiles
    /\ \E response \in CaptureResponses :
          LET parsed == parse_response(response)
              remaining == limit - total_tweets
              new_tweets == Truncated(parsed.tweets, remaining)
              incomplete_ids ==
                  KeptIncomplete(parsed.tweets, parsed.incomplete, remaining)
          IN  /\ IF new_tweets # <<>>
                 THEN /\ batch_files' = [batch_files EXCEPT
                             ![batch_count + 1] = CompleteFile(new_tweets)]
                      /\ total_tweets' = total_tweets + Len(new_tweets)
                 ELSE UNCHANGED <<batch_files, total_tweets>>
              /\ incomplete_threads_queue' =
                     incomplete_threads_queue \cup incomplete_ids
    /\ batch_count' = batch_count + 1
    /\ UNCHANGED <<cpc, run, limit, fetch_todo, thread_files, recVars, parseVars,
                   autoVars, extVars>>

(* Lines 488-541 when getResponseBody or a write raises: the handler of    *)
(* line 540 logs it and nothing is counted.  A failed json.dump may leave  *)
(* the batch file cut short.                                               *)
HandleResponseFails ==
    /\ cpc = "scanning"
    /\ total_tweets < limit
    /\ batch_count < MaxBatchFiles
    /\ \/ /\ UNCHANGED batch_files
          /\ logged' = logged \cup {RequestName}
       \/ /\ batch_files' = [batch_files EXCEPT
                                ![batch_count + 1] = PartialFile]
          /\ logged' = logged \cup {BatchName(batch_count + 1)}
    /\ UNCHANGED <<cpc, run, limit, batch_count, total_tweets,
                   incomplete_threads_queue, fetch_todo, thread_files,
                   recVars, parseVars, target_user, output_file, output_run,
                   json_file, extVars>>

(* The process is stopped inside the json.dump of lines 519-520: open(.., *)
(* "w") has emptied the file and only part of the text has been written.   *)
InterruptedBatchWrite ==
    /\ cpc = "scanning"
    /\ total_tweets < limit
    /\ batch_count < MaxBatchFiles
    /\ batch_files' = [batch_files EXCEPT ![batch_count + 1] = PartialFile]
    /\ cpc' = "interrupted"
    /\ UNCHANGED <<run, limit, batch_count, total_tweets,
                   incomplete_threads_queue, fetch_todo, thread_files,
                   recVars, parseVars, autoVars, extVars>>

(* The while loop of line 463 ends (limit reached, or no new data), and    *)
(* lines 569-573 hand the queue to fetch_incomplete_threads.               *)
LeaveLoop ==
    /\ cpc = "scanning"
    /\ fetch_todo' = incomplete_threads_queue
    /\ cpc' = "fetching"
    /\ UNCHANGED <<run, limit, batch_count, total_tweets,
                   incomplete_threads_queue, batch_files, thread_files,
                   recVars, parseVars, autoVars, extVars>>

(* One try around the whole loop over the thread ids: a failure for one id *)
(* ends the backfill.                                                      *)
FetchThreadFailsEndsLoop ==
    /\ cpc = "fetching"
    /\ \E tid \in fetch_todo :
          /\ \/ UNCHANGED <<thread_files, logged>>
             \/ /\ thread_files' = [thread_files EXCEPT ![tid] = PartialFile]
                /\ logged' = logged \cup {ThreadName(tid)}
          /\ fetch_todo' = {}
    /\ UNCHANGED <<cpc, run, limit, batch_count, total_tweets,
                   incomplete_threads_queue, batch_files, recVars, parseVars,
                   target_user, output_file, output_run, json_file, extVars>>

(* Lines 372-431 for one thread id whose TweetDetail response is found.    *)
FetchThread ==
    /\ cpc = "fetching"
    /\ \E tid \in fetch_todo, response \in DetailResponses :
          /\ thread_files' = [thread_files EXCEPT
                 ![tid] = CompleteFile(Tagged(parse_tweet_detail(response), tid))]
          /\ fetch_todo' = fetch_todo \ {tid}
    /\ UNCHANGED <<cpc, run, limit, batch_count, total_tweets,
                   incomplete_threads_queue, batch_files, recVars, parseVars,
                   autoVars, extVars>>

(* Lines 372-431 for one thread id with no TweetDetail response, or with   *)
(* an exception (a failed json.dump may leave the file cut short).         *)
FetchThreadFails ==
    /\ cpc = "fetching"
    /\ \E tid \in fetch_todo :
          /\ \/ UNCHANGED <<thread_files, logged>>
             \/ /\ thread_files' = [thread_files EXCEPT ![tid] = PartialFile]
                /\ logged' = logged \cup {ThreadName(tid)}
          /\ fetch_todo' = fetch_todo \ {tid}
    /\ UNCHANGED <<cpc, run, limit, batch_count, total_tweets,
                   incomplete_threads_queue, batch_files, recVars, parseVars,
                   target_user, output_file, output_run, json_file, extVars>>

(* The process is stopped inside the json.dump of lines 415-416.           *)
InterruptedThreadWrite ==
    /\ cpc = "fetching"
    /\ \E tid \in fetch_todo :
          thread_files' = [thread_files EXCEPT ![tid] = PartialFile]
    /\ cpc' = "interrupted"
    /\ UNCHANGED <<run, limit, batch_count, total_tweets,
                   incomplete_threads_queue, fetch_todo, batch_files,
                   recVars, parseVars, autoVars, extVars>>

(* fetch_incomplete_threads and scrape_profile return.                     *)
ScrapeReturns ==
    /\ cpc = "fetching"
    /\ fetch_todo = {}
    /\ cpc' = "scraped"
    /\ UNCHANGED <<run, limit, batch_count, total_tweets,
                   incomplete_threads_queue, fetch_todo, batch_files,
                   thread_files, recVars, parseVars, autoVars, extVars>>

(* An exception leaves scrape_profile (driver.get, get_log or scroll_page  *)
(* fails; fetch_incomplete_threads lets none out): the handler of          *)
(* run_automator, lines 646-648, logs it and returns None.                 *)
AutomatorFails ==
    /\ cpc = "scanning"
    /\ cpc' = "returned"
    /\ json_file' = None
    /\ UNCHANGED <<run, limit, batch_count, total_tweets,
                   incomplete_threads_queue, fetch_todo, batch_files,
                   thread_files, recVars, parseVars, target_user, output_file,
                   output_run, logged, extVars>>

(***************************************************************************)
(* mega_parse over the files of the directory, in the order glob lists     *)
(* them.  json.load raises on a file that was cut short; the handlers of   *)
(* lines 34 and 61 skip that file.                                         *)
(***************************************************************************)
RECURSIVE MergeBatchTweets(_, _)
MergeBatchTweets(d, tweets) ==
    IF tweets = <<>> THEN d
    ELSE MergeBatchTweets(MergeBatchTweet(d, Head(tweets)), Tail(tweets))

RECURSIVE MergeThreadTweets(_, _, _)
MergeThreadTweets(d, tweets, ftid) ==
    IF tweets = <<>> THEN d
    ELSE MergeThreadTweets(MergeThreadTweet(d, Head(tweets), ftid),
                           Tail(tweets), ftid)

(* One handler around the loop over the files: the first unit that cannot  *)
(* be read ends the loading.                                               *)
RECURSIVE LoadBatchFilesStopsAtError(_, _, _)
LoadBatchFilesStopsAtError(d, files, order) ==
    IF order = <<>> THEN d
    ELSE IF files[Head(order)].state # "complete" THEN d
    ELSE LoadBatchFilesStopsAtError(
             MergeBatchTweets(d, files[Head(order)].tweets), files, Tail(order))

RECURSIVE LoadBatchFiles(_, _, _)
LoadBatchFiles(d, files, order) ==
    IF order = <<>> THEN d
    ELSE LoadBatchFiles(
             IF files[Head(order)].state = "complete"
             THEN MergeBatchTweets(d, files[Head(order)].tweets) ELSE d,
             files, Tail(order))

RECURSIVE LoadThreadFiles(_, _, _)
LoadThreadFiles(d, files, order) ==
    IF order = <<>> THEN d
    ELSE LoadThreadFiles(
             IF files[Head(order)].state = "complete"
             THEN MergeThreadTweets(d, files[Head(order)].tweets,
                                    FileThreadId(ThreadName(Head(order))))
             ELSE d,
             files, Tail(order))

(* The orders in which glob.glob may list the files that exist.            *)
Orders(names) ==
    {o \in [1..Cardinality(names) -> names] :
        \A i, j \in DOMAIN o : i # j => o[i] # o[j]}

(* The names in the working directory.                                     *)
Directory ==
    {BatchName(n) : n \in {k \in DOMAIN batch_files :
                              batch_files[k].state # "absent"}}
        \cup {ThreadName(t) : t \in {k \in DOMAIN thread_files :
                                        thread_files[k].state # "absent"}}
        \cup (IF output_file # "absent" THEN {OutputName(target_user)} ELSE {})

(* glob.glob("*_api_parsed.json")                                          *)
GlobBatchFiles(dir) ==
    {name \in dir : /\ Len(name) >= 3
                    /\ name[Len(name) - 1] = "api"
                    /\ name[Len(name)] = "parsed.json"}

(* glob.glob("thread_*_full.json")                                         *)
GlobThreadFiles(dir) ==
    {name \in dir : /\ Len(name) >= 3
                    /\ name[1] = "thread"
                    /\ name[Len(name)] = "full.json"}

ExistingBatches ==
    {n \in DOMAIN batch_files : BatchName(n) \in GlobBatchFiles(Directory)}

ExistingThreads ==
    {t \in DOMAIN thread_files : ThreadName(t) \in GlobThreadFiles(Directory)}

(* The units json.load rejects: "Error reading <fpath>" is printed.        *)
ReadErrors ==
    {BatchName(n) : n \in {k \in ExistingBatches :
                              batch_files[k].state = "partial"}}
        \cup {ThreadName(t) : t \in {k \in ExistingThreads :
                                        thread_files[k].state = "partial"}}

(* Steps 1-2 of mega_parse under the given glob orders.                    *)
LoadedTweets(batch_order, thread_order) ==
    LoadThreadFiles(LoadBatchFiles(<<>>, batch_files, batch_order),
                    thread_files, thread_order)

(* What a run of mega_parse leaves: how it ended and the corpus file (the  *)
(* file of an earlier run stays when this one raises before step 6).       *)
Outcome(d) ==
    IF MegaParseRaises(d) THEN [phase |-> "raised", corpus |-> corpus]
    ELSE [phase |-> "saved", corpus |-> FinalCorpus(d)]

(* mega_parse called by run_automator after scrape_profile returned, or   *)
(* run by hand while no capture is running.                                *)
MegaParseCalled ==
    /\ cpc \in {"scraped", "interrupted", "returned"}
    /\ cpc' = IF cpc = "scraped" THEN "parsed" ELSE cpc

(* mega_parse to its end: the corpus is written, or a sort raises.         *)
MegaParse ==
    /\ MegaParseCalled
    /\ \E bo \in Orders(ExistingBatches), to \in Orders(ExistingThreads) :
          /\ all_tweets' = LoadedTweets(bo, to)
          /\ phase' = Outcome(LoadedTweets(bo, to)).phase
          /\ corpus' = Outcome(LoadedTweets(bo, to)).corpus
    /\ output_file' = IF phase' = "saved" THEN "complete" ELSE output_file
    /\ output_run' = IF phase' = "saved" THEN run ELSE output_run
    /\ logged' = logged \cup ReadErrors
    /\ UNCHANGED <<file_thread_id, seen_timeline, seen_thread, seen_detail,
                   parseVars, run, limit, batch_count, total_tweets,
                   incomplete_threads_queue, fetch_todo, batch_files,
                   thread_files, target_user, json_file, extVars>>

(* mega_parse when step 6 fails (lines 111-116): open raises and the file  *)
(* of an earlier run, if any, stays; or json.dump is cut short and leaves  *)
(* a file that is no JSON document.  "Error saving output" is printed.     *)
MegaParseSaveFails ==
    /\ MegaParseCalled
    /\ \E bo \in Orders(ExistingBatches), to \in Orders(ExistingThreads) :
          /\ ~MegaParseRaises(LoadedTweets(bo, to))
          /\ all_tweets' = LoadedTweets(bo, to)
    /\ phase' = "unsaved"
    /\ \/ UNCHANGED <<output_file, corpus>>
       \/ /\ output_file' = "partial"
          /\ corpus' = <<>>
    /\ logged' = logged \cup ReadErrors \cup {OutputName(target_user)}
    /\ UNCHANGED <<file_thread_id, seen_timeline, seen_thread, seen_detail,
                   parseVars, run, limit, batch_count, total_tweets,
                   incomplete_threads_queue, fetch_todo, batch_files,
                   thread_files, target_user, output_run, json_file, extVars>>

(* run_automator after mega_parse, lines 638-648: the path when the file   *)
(* exists, None when it does not or when mega_parse raised.                *)
AutomatorReturns ==
    /\ cpc = "parsed"
    /\ cpc' = "returned"
    /\ json_file' = IF phase = "raised" THEN None
                    ELSE IF output_file # "absent"
                    THEN OutputName(target_user) ELSE None
    /\ UNCHANGED <<run, limit, batch_count, total_tweets,
                   incomplete_threads_queue, fetch_todo, batch_files,
                   thread_files, recVars, parseVars, target_user, output_file,
                   output_run, logged, extVars>>

CaptureNext ==
    AutomatorGivesUp \/ StartRun \/ HandleResponse \/ HandleResponseFails
        \/ InterruptedBatchWrite \/ LeaveLoop \/ FetchThread
        \/ FetchThreadFails \/ InterruptedThreadWrite \/ ScrapeReturns
        \/ AutomatorFails \/ MegaParse \/ MegaParseSaveFails
        \/ AutomatorReturns

SpecCapture == CaptureInit /\ [][CaptureNext]_vars

(* C3: whichever order glob lists the units in, mega_parse ends the same   *)
(* way and writes the same corpus.                                         *)
C3_OrderIndependent ==
    phase \in {"saved", "raised"} =>
        \A bo \in Orders(ExistingBatches), to \in Orders(ExistingThreads) :
            Outcome(LoadedTweets(bo, to)) = [phase |-> phase, corpus |-> corpus]

(* C6: no step changes or removes a unit that is on disk in full.          *)
C6_AppendOnly ==
    [][/\ \A n \in DOMAIN batch_files :
             batch_files[n].state = "complete" => batch_files'[n] = batch_files[n]
       /\ \A t \in DOMAIN thread_files :
             thread_files[t].state = "complete" =>
                 thread_files'[t] = thread_files[t]]_vars

(* C7: a write that is interrupted leaves every unit that was on disk in   *)
(* full as it was, so that reconciliation can still load it (a unit cut    *)
(* short is never loaded: json.load rejects it).                           *)
C7_AtomicPerUnit ==
    [][cpc' = "interrupted" /\ cpc # "interrupted" =>
          /\ \A n \in DOMAIN batch_files :
                batch_files[n].state = "complete" =>
                    batch_files'[n] = batch_files[n]
          /\ \A t \in DOMAIN thread_files :
                thread_files[t].state = "complete" =>
                    thread_files'[t] = thread_files[t]]_vars

(* One run of run_automator in an empty directory, and mega_parse run by   *)
(* hand after it: the capture model without restarts.                      *)
SingleRunInit ==
    /\ ExtIdle
    /\ ParseIdle
    /\ phase = "idle"
    /\ all_tweets = <<>>
    /\ file_thread_id = None
    /\ corpus = <<>>
    /\ seen_timeline = {}
    /\ seen_thread = {}
    /\ seen_detail = {}
    /\ cpc = "idle"
    /\ run = MaxRuns - 1
    /\ limit = MaxLimit
    /\ batch_count = 0
    /\ total_tweets = 0
    /\ incomplete_threads_queue = {}
    /\ fetch_todo = {}
    /\ batch_files = [n \in 1..MaxBatchFiles |-> AbsentFile]
    /\ thread_files = [t \in ThreadIds |-> AbsentFile]
    /\ target_user = "thread_x"
    /\ output_file = "absent"
    /\ output_run = 0
    /\ json_file = "unset"
    /\ logged = {}

SpecSingleRun == SingleRunInit /\ [][CaptureNext]_vars

(* The ids held by the units that are on disk in full.                     *)
UnitIds ==
    (UNION {SeqIds(batch_files[n].tweets) : n \in DOMAIN batch_files}
        \cup UNION {SeqIds(thread_files[t].tweets) : t \in DOMAIN thread_files})
        \ {None}

(* C13: mega_parse run again over the same units writes the corpus it      *)
(* wrote before, and the corpus file in the directory is matched by        *)
(* neither of its glob patterns.                                           *)
C13_Idempotent ==
    [][(phase = "saved" /\ phase' = "saved") =>
          /\ corpus' = corpus
          /\ OutputName(target_user) \notin
                 GlobBatchFiles(Directory) \cup GlobThreadFiles(Directory)]_vars

(* C15: a batch write that fails during capture is logged and leaves the   *)
(* loop running with its counters as they were, so that later responses    *)
(* are captured; a unit that cannot be read during reconciliation is       *)
(* logged and every unit that can be read is merged into a corpus that is  *)
(* written.                                                                *)
C15_StorageFailuresNonFatal ==
    [][/\ \A n \in DOMAIN batch_files :
             (/\ batch_files'[n] = PartialFile
              /\ batch_files[n] # PartialFile
              /\ cpc' = "scanning") =>
                 /\ BatchName(n) \in logged'
                 /\ total_tweets' = total_tweets
                 /\ batch_count' = batch_count
                 /\ batch_count' < MaxBatchFiles
       /\ phase' = "saved" =>
             /\ ReadErrors' \subseteq logged'
             /\ UnitIds' \subseteq DictIds(all_tweets')
             /\ output_file' = "complete"]_vars

(* A corpus written from the readable units of a directory that holds an   *)
(* unreadable one, in a run that went on to capture a batch under the      *)
(* name of a write that had failed.                                        *)
C15_Witness ==
    /\ phase = "saved"
    /\ corpus # <<>>
    /\ ReadErrors # {}
    /\ \E n \in DOMAIN batch_files :
          /\ BatchName(n) \in logged
          /\ batch_files[n].state = "complete"

(* C16: run_automator returns the path exactly when the mega_parse of this *)
(* run wrote the corpus file, and None otherwise.                          *)
C16_ReturnsWrittenCorpus ==
    [][(cpc = "parsed" /\ cpc' = "returned") =>
          (json_file' = OutputName(target_user)
              <=> (phase = "saved" /\ output_file = "complete"
                      /\ output_run = run))]_vars

(***************************************************************************)
(* mega_parse over a directory whose thread-detail units were not all      *)
(* written by this version of fetch_incomplete_threads: a record of such a *)
(* unit may carry no thread_id, or that of another thread.                 *)
(***************************************************************************)
UnitTweets ==
    {Tweet(i, t, RawDate(i), DetailText) :
        i \in RawIds \cup {None}, t \in ThreadIds \cup {None}}

ThreadUnits ==
    {<<a>> : a \in UnitTweets} \cup {<<a, b>> : a, b \in UnitTweets}

BatchUnits == {<<Tweet(i, None, RawDate(i), TimelineText)>> : i \in RawIds}

(* scrape_profile has returned in a directory that holds such units.       *)
UnitsInit ==
    /\ ExtIdle
    /\ ParseIdle
    /\ phase = "idle"
    /\ all_tweets = <<>>
    /\ file_thread_id = None
    /\ corpus = <<>>
    /\ seen_timeline = {}
    /\ seen_thread = {}
    /\ seen_detail = {}
    /\ cpc = "scraped"
    /\ run = 1
    /\ limit = 1
    /\ batch_count = 0
    /\ total_tweets = 0
    /\ incomplete_threads_queue = {}
    /\ fetch_todo = {}
    /\ \E b \in {AbsentFile} \cup {CompleteFile(u) : u \in BatchUnits} :
          batch_files = [n \in 1..MaxBatchFiles |->
                            IF n = 1 THEN b ELSE AbsentFile]
    /\ thread_files \in
          [ThreadIds -> {AbsentFile} \cup {CompleteFile(u) : u \in ThreadUnits}]
    /\ target_user = "output"
    /\ output_file = "absent"
    /\ output_run = 0
    /\ json_file = "unset"
    /\ logged = {}

UnitsNext == MegaParse \/ MegaParseSaveFails

SpecUnits == UnitsInit /\ [][UnitsNext]_vars

(* mega_parse has gone through steps 1-2.                                  *)
Loaded == phase \in {"saved", "raised", "unsaved"}

(* The record as step 2 stores it when it comes from the unit of thread t. *)
Associated(r, t) ==
    IF r.thread_id = None
    THEN [r EXCEPT !.thread_id = t, !.is_thread = TRUE]
    ELSE r

MediaInit ==
    /\ ExtIdle
    /\ ParseIdle
    /\ CaptureIdle
    /\ AutomatorIdle
    /\ phase = "idle"
    /\ all_tweets = <<>>
    /\ file_thread_id = None
    /\ corpus = <<>>
    /\ seen_timeline = {}
    /\ seen_thread = {}
    /\ seen_detail = {}

MediaUnchanged ==
    UNCHANGED <<parser, ppc, parsed_tweets, incomplete_threads, module,
                module_thread_id, items_left, n_items, n_all_tweet_ids,
                tweet_res, expected, recVars, capVars, autoVars, extVars>>

(* media.get('type') == 'photo'                                            *)
PhotoStep ==
    /\ mpc = "media"
    /\ Len(media_urls) < MaxMedia
    /\ media_urls' = Append(media_urls, PhotoUrl)
    /\ variants' = <<>>
    /\ UNCHANGED mpc
    /\ MediaUnchanged

(* An attachment of another type (animated_gif): nothing is added.         *)
OtherMediaStep ==
    /\ mpc = "media"
    /\ Len(media_urls) < MaxMedia
    /\ variants' = <<>>
    /\ UNCHANGED <<media_urls, mpc>>
    /\ MediaUnchanged

(* The loop comes to an attachment of type 'video'.                        *)
VideoFound ==
    /\ mpc = "media"
    /\ Len(media_urls) < MaxMedia
    /\ mpc' = "video"
    /\ variants' = <<>>
    /\ UNCHANGED media_urls
    /\ MediaUnchanged

(* One more variant of video_info.variants.                                *)
ReadVariant ==
    /\ mpc = "video"
    /\ Len(variants) < MaxVariants
    /\ \E v \in Variants(Len(variants) + 1) : variants' = Append(variants, v)
    /\ UNCHANGED <<media_urls, mpc>>
    /\ MediaUnchanged

(* Lines 209-216 on the variants of the video.                             *)
VideoStep ==
    /\ mpc = "video"
    /\ media_urls' = IF BestVariant(variants) # <<>>
                     THEN Append(media_urls, BestVariant(variants)[1].url)
                     ELSE media_urls
    /\ mpc' = "media"
    /\ UNCHANGED variants
    /\ MediaUnchanged

MediaNext ==
    PhotoStep \/ OtherMediaStep \/ VideoFound \/ ReadVariant \/ VideoStep

SpecMedia == MediaInit /\ [][MediaNext]_vars

(* The places of the mp4 variants of the current video.                    *)
Mp4Places == {i \in DOMAIN variants : IsMp4(variants[i])}

(* C20: the step that handles a video adds nothing when none of its        *)
(* variants is video/mp4, and otherwise adds the url of the mp4 variant    *)
(* whose bitrate (0 when missing) is not below that of any mp4 variant and *)
(* is above that of every mp4 variant before it in the list.               *)
C20_VideoVariant ==
    [][(mpc = "video" /\ mpc' = "media") =>
          IF Mp4Places = {}
          THEN media_urls' = media_urls
          ELSE \E i \in Mp4Places :
                  /\ \A j \in Mp4Places :
                        /\ BitrateKey(variants[j]) <= BitrateKey(variants[i])
                        /\ j < i =>
                              BitrateKey(variants[j]) < BitrateKey(variants[i])
                  /\ media_urls' = Append(media_urls, variants[i].url)]_vars

(* The second of two mp4 variants is taken, its bitrate being the higher,  *)
(* though a third variant of another type has a bitrate above both.        *)
C20_Witness ==
    /\ Len(variants) = 3
    /\ IsMp4(variants[1]) /\ variants[1].bitrate = 0
    /\ IsMp4(variants[2]) /\ variants[2].bitrate = 1
    /\ ~IsMp4(variants[3]) /\ variants[3].bitrate = 2
    /\ mpc = "media"
    /\ media_urls = <<2>>

(***************************************************************************)
(* Properties of the capture loop.                                         *)
(***************************************************************************)
(* A step of the loop of scrape_profile lines 463-562.                     *)
LoopStep == cpc = "scanning" /\ cpc' = "scanning"

(* C23: scrape_profile starts with total_tweets = 0; a step of its loop    *)
(* that adds to total_tweets has written a batch file holding exactly that *)
(* many records, which are the parsed response cut to the remaining count; *)
(* a step that leaves total_tweets alone has written no batch file in      *)
(* full; and total_tweets never exceeds limit.                             *)
C23_CaptureLimit ==
    [][/\ total_tweets' <= limit'
       /\ (cpc # "scanning" /\ cpc' = "scanning") => total_tweets' = 0
       /\ LoopStep =>
             /\ total_tweets' >= total_tweets
             /\ total_tweets' > total_tweets =>
                   /\ batch_count' = batch_count + 1
                   /\ batch_files'[batch_count'].state = "complete"
                   /\ Len(batch_files'[batch_count'].tweets)
                          = total_tweets' - total_tweets
                   /\ \E response \in CaptureResponses :
                         LET parsed == parse_response(response).tweets
                             remaining == limit - total_tweets
                         IN  batch_files'[batch_count'].tweets =
                                 IF Len(parsed) > remaining
                                 THEN SubSeq(parsed, 1, remaining) ELSE parsed
             /\ total_tweets' = total_tweets =>
                   \A n \in DOMAIN batch_files :
                       \/ batch_files'[n] = batch_files[n]
                       \/ batch_files'[n] = PartialFile]_vars

(* The first run has reached its limit with a second batch that is a       *)
(* two-post conversation cut to its first post.                            *)
C23_Witness ==
    /\ cpc = "scanning"
    /\ total_tweets = limit
    /\ limit = MaxLimit
    /\ batch_count = 2
    /\ Len(batch_files[1].tweets) = limit - 1
    /\ Len(batch_files[2].tweets) = 1
    /\ batch_files[2].tweets[1].thread_id = batch_files[2].tweets[1].id

(* The ids of the posts in the timeline batch files.                       *)
BatchIds == UNION {SeqIds(batch_files[n].tweets) : n \in DOMAIN batch_files}

(* C25: in a run that started in an empty directory, every thread id in    *)
(* the backfill queue of scrape_profile is the id of a post held by one of *)
(* the timeline batch files.                                               *)
C25_QueuedRootsPersisted ==
    cpc \in {"scanning", "fetching"} => incomplete_threads_queue \subseteq BatchIds

(***************************************************************************)
(* fetch_incomplete_threads called with any list of thread ids, in a       *)
(* directory that may hold thread-detail files of an earlier run.          *)
(***************************************************************************)
StaleThreadFiles ==
    {AbsentFile, PartialFile}
        \cup {CompleteFile(Tagged(parse_tweet_detail(r), t)) :
                 r \in DetailResponses, t \in ThreadIds}

BackfillInit ==
    /\ ExtIdle
    /\ ParseIdle
    /\ AutomatorIdle
    /\ phase = "idle"
    /\ all_tweets = <<>>
    /\ file_thread_id = None
    /\ corpus = <<>>
    /\ seen_timeline = {}
    /\ seen_thread = {}
    /\ seen_detail = {}
    /\ cpc = "fetching"
    /\ run = 1
    /\ limit = 1
    /\ batch_count = 0
    /\ total_tweets = 0
    /\ incomplete_threads_queue \in SUBSET ThreadIds
    /\ fetch_todo = incomplete_threads_queue
    /\ batch_files = [n \in 1..MaxBatchFiles |-> AbsentFile]
    /\ thread_files \in [ThreadIds -> StaleThreadFiles]

BackfillNext == FetchThread \/ FetchThreadFails \/ ScrapeReturns

SpecBackfill == BackfillInit /\ [][BackfillNext]_vars

(* C26: a step of the backfill loop takes one id that has not been tried,  *)
(* writes no file but that id's, and the unit it writes holds only records *)
(* with thread_id = that id and is_thread = true; the loop goes on after   *)
(* it, whether it failed or not; and fetch_incomplete_threads returns only *)
(* when every id it was given has been tried.                              *)
C26_BackfillIndependent ==
    [][/\ (cpc = "fetching" /\ cpc' = "fetching") =>
             \E tid \in fetch_todo :
                 /\ fetch_todo' = fetch_todo \ {tid}
                 /\ \A t \in ThreadIds \ {tid} :
                       thread_files'[t] = thread_files[t]
                 /\ thread_files'[tid] # thread_files[tid] =>
                       \A k \in DOMAIN thread_files'[tid].tweets :
                           /\ thread_files'[tid].tweets[k].thread_id = tid
                           /\ thread_files'[tid].tweets[k].is_thread
       /\ (cpc = "fetching" /\ cpc' # "fetching") =>
             /\ cpc' = "scraped"
             /\ fetch_todo = {}
             /\ thread_files' = thread_files]_vars

(* Two ids were queued; the write for one failed and the unit of the       *)
(* other, with a reply in it, was written in full.                         *)
C26_Witness ==
    /\ cpc = "scraped"
    /\ incomplete_threads_queue = ThreadIds
    /\ \E t, u \in ThreadIds :
          /\ ThreadName(t) \in logged
          /\ thread_files[t] = PartialFile
          /\ thread_files[u].state = "complete"
          /\ Len(thread_files[u].tweets) = 2
          /\ \A k \in DOMAIN thread_files[u].tweets :
                thread_files[u].tweets[k].thread_id = u

(***************************************************************************)
(* The while loop of scrape_profile (lines 459-562) scan by scan.  cpc is  *)
(* "loop_test" at the test of line 463, "log_scan" inside the for loop of  *)
(* line 470 over the log entries of one scan, "after_scan" at line 548,    *)
(* "loop_left" at line 564, and "loop_raised" when an exception has left   *)
(* scrape_profile.  A log entry that is no new UserTweets response changes *)
(* nothing and is not a step.                                              *)
(***************************************************************************)
max_no_data_scrolls == 15

(* scrape_profile at line 463 for the first time, in an empty directory.   *)
LoopInit ==
    /\ ExtIdle
    /\ ParseIdle
    /\ AutomatorIdle
    /\ phase = "idle"
    /\ all_tweets = <<>>
    /\ file_thread_id = None
    /\ corpus = <<>>
    /\ seen_timeline = {}
    /\ seen_thread = {}
    /\ seen_detail = {}
    /\ cpc = "loop_test"
    /\ run = 1
    /\ limit \in 0..MaxLimit
    /\ batch_count = 0
    /\ total_tweets = 0
    /\ incomplete_threads_queue = {}
    /\ fetch_todo = {}
    /\ batch_files = [n \in 1..MaxBatchFiles |-> AbsentFile]
    /\ thread_files = [t \in ThreadIds |-> AbsentFile]

LoopUnchanged ==
    UNCHANGED <<run, limit, fetch_todo, thread_files, recVars, parseVars,
                autoVars, driverVars, rateVars, windowVars, panelVars>>

(* Lines 463-468: the test holds, the logs are fetched.                    *)
ScanLogs ==
    /\ cpc = "loop_test"
    /\ total_tweets < limit
    /\ cpc' = "log_scan"
    /\ found_new_batch' = FALSE
    /\ total_at_scan' = total_tweets
    /\ UNCHANGED <<batch_count, total_tweets, incomplete_threads_queue,
                   batch_files, no_new_data_scrolls, idle_scans>>
    /\ LoopUnchanged

(* Line 463: the test fails.                                               *)
LoopTestFails ==
    /\ cpc = "loop_test"
    /\ total_tweets >= limit
    /\ cpc' = "loop_left"
    /\ UNCHANGED <<batch_count, total_tweets, incomplete_threads_queue,
                   batch_files, loopVars>>
    /\ LoopUnchanged

(* driver.get_log (line 467) or scroll_page (line 562) raises: nothing in  *)
(* scrape_profile catches it.                                              *)
DriverRaises ==
    /\ cpc = "loop_test"
    /\ total_tweets < limit
    /\ cpc' = "loop_raised"
    /\ UNCHANGED <<batch_count, total_tweets, incomplete_threads_queue,
                   batch_files, loopVars>>
    /\ LoopUnchanged

(* Lines 485-538 for one new UserTweets response of the scan.              *)
ScanResponse ==
    /\ cpc = "log_scan"
    /\ batch_count < MaxBatchFiles
    /\ \E response \in CaptureResponses :
          LET parsed == parse_response(response)
              remaining == limit - total_tweets
              new_tweets == Truncated(parsed.tweets, remaining)
              incomplete_ids ==
                  KeptIncomplete(parsed.tweets, parsed.incomplete, remaining)
          IN  /\ IF new_tweets # <<>>
                 THEN /\ batch_files' = [batch_files EXCEPT
                             ![batch_count + 1] = CompleteFile(new_tweets)]
                      /\ total_tweets' = total_tweets + Len(new_tweets)
                      /\ found_new_batch' = TRUE
                 ELSE UNCHANGED <<batch_files, total_tweets, found_new_batch>>
              /\ incomplete_threads_queue' =
                     incomplete_threads_queue \cup incomplete_ids
    /\ batch_count' = batch_count + 1
    /\ cpc' = IF total_tweets' >= limit THEN "after_scan" ELSE "log_scan"
    /\ UNCHANGED <<no_new_data_scrolls, total_at_scan, idle_scans>>
    /\ LoopUnchanged

(* Lines 488-541 when getResponseBody or a write raises.                   *)
ScanResponseFails ==
    /\ cpc = "log_scan"
    /\ batch_count < MaxBatchFiles
    /\ \/ UNCHANGED batch_files
       \/ batch_files' = [batch_files EXCEPT ![batch_count + 1] = PartialFile]
    /\ UNCHANGED <<cpc, batch_count, total_tweets, incomplete_threads_queue,
                   loopVars>>
    /\ LoopUnchanged

(* The for loop of line 470 has gone through the logs of this scan.        *)
LogsExhausted ==
    /\ cpc = "log_scan"
    /\ cpc' = "after_scan"
    /\ UNCHANGED <<batch_count, total_tweets, incomplete_threads_queue,
                   batch_files, loopVars>>
    /\ LoopUnchanged

(* no_new_data_scrolls after lines 552-558.                                *)
NoNewDataKeptOnProgress(no_new, found) == IF found THEN no_new ELSE no_new + 1

NoNewData(no_new, found) == IF found THEN 0 ELSE no_new + 1

(* Lines 548-562.                                                          *)
AfterScan ==
    /\ cpc = "after_scan"
    /\ IF total_tweets >= limit
       THEN /\ cpc' = "loop_left"
            /\ UNCHANGED no_new_data_scrolls
       ELSE /\ no_new_data_scrolls' =
                   NoNewData(no_new_data_scrolls, found_new_batch)
            /\ cpc' = IF ~found_new_batch
                         /\ no_new_data_scrolls' >= max_no_data_scrolls
                      THEN "loop_left" ELSE "loop_test"
    /\ idle_scans' = IF total_tweets > total_at_scan THEN 0 ELSE idle_scans + 1
    /\ UNCHANGED <<batch_count, total_tweets, incomplete_threads_queue,
                   batch_files, found_new_batch, total_at_scan>>
    /\ LoopUnchanged

LoopNext ==
    ScanLogs \/ LoopTestFails \/ DriverRaises \/ ScanResponse
        \/ ScanResponseFails \/ LogsExhausted \/ AfterScan

SpecLoop == LoopInit /\ [][LoopNext]_vars

(* The list of log entries of a scan is finite and nothing in the loop     *)
(* blocks for ever: a step that can be taken is taken, and the for loop    *)
(* comes to the end of its list.                                           *)
SpecLoopFair ==
    SpecLoop /\ WF_vars(LoopNext) /\ WF_vars(LogsExhausted)

LoopEnded == cpc \in {"loop_left", "loop_raised"}

(* C24: the capture loop ends; it is left by its own tests only with       *)
(* total_tweets at the limit or after max_no_data_scrolls scans in a row    *)
(* that wrote no batch; once total_tweets is at the limit no further       *)
(* response is handled; and no_new_data_scrolls is the number of scans     *)
(* that ended in a row without a written batch (while the limit is not    *)
(* reached), so it goes back to 0 only at the end of a scan that wrote     *)
(* one.                                                                    *)
C24_LoopTerminates ==
    /\ <>LoopEnded
    /\ [][/\ (cpc # "loop_left" /\ cpc' = "loop_left") =>
                 \/ total_tweets' >= limit
                 \/ idle_scans' = max_no_data_scrolls
          /\ (cpc \in {"log_scan", "after_scan"} /\ total_tweets >= limit) =>
                 /\ cpc' \in {"after_scan", "loop_left"}
                 /\ batch_files' = batch_files
                 /\ batch_count' = batch_count
          /\ (cpc' \in {"loop_test", "loop_left"} /\ total_tweets' < limit) =>
                 no_new_data_scrolls' = idle_scans'
          /\ (no_new_data_scrolls # 0 /\ no_new_data_scrolls' = 0) =>
                 /\ cpc = "after_scan"
                 /\ total_tweets > total_at_scan]_vars

(* The loop was left below the limit, after scans without a batch that     *)
(* followed a scan with one.                                               *)
C24_Witness ==
    /\ cpc = "loop_left"
    /\ 0 < total_tweets
    /\ total_tweets < limit
    /\ no_new_data_scrolls = max_no_data_scrolls

(***************************************************************************)
(* run_automator of api_xscrap.py (lines 590-655) step by step, with       *)
(* scrape_profile and mega_parse as calls that return or raise.  The       *)
(* directory may hold the corpus file of an earlier run.  driver.quit()    *)
(* closes an open browser; it raises when the session is already lost.     *)
(***************************************************************************)
AutomatorInit ==
    /\ ExtIdle
    /\ ParseIdle
    /\ phase = "idle"
    /\ all_tweets = <<>>
    /\ file_thread_id = None
    /\ corpus = <<>>
    /\ seen_timeline = {}
    /\ seen_thread = {}
    /\ seen_detail = {}
    /\ cpc = "idle"
    /\ run = 1
    /\ limit \in 1..MaxLimit
    /\ batch_count = 0
    /\ total_tweets = 0
    /\ incomplete_threads_queue = {}
    /\ fetch_todo = {}
    /\ batch_files = [n \in 1..MaxBatchFiles |-> AbsentFile]
    /\ thread_files = [t \in ThreadIds |-> AbsentFile]
    /\ target_user \in Usernames
    /\ output_file \in {"absent", "complete", "partial"}
    /\ output_run = 0
    /\ json_file = "unset"
    /\ logged = {}

AutomatorUnchanged ==
    UNCHANGED <<all_tweets, file_thread_id, corpus, seen_timeline, seen_thread,
                seen_detail, parseVars, run, limit, batch_count,
                incomplete_threads_queue, fetch_todo, batch_files, thread_files,
                target_user, output_run, logged, loopVars, rateVars,
                windowVars, panelVars>>

(* The finally block, lines 649-655, on the way out.                       *)
Finally(d, b) == IF d # None /\ b = "open" THEN "closed" ELSE b

(* "return None" through the finally block.                                *)
ReturnNone ==
    /\ apc' = "returned"
    /\ json_file' = None
    /\ UNCHANGED <<driver, phase, total_tweets, cpc, output_file>>

(* Lines 603-606: no configuration.                                        *)
LoadCredentialsFails ==
    /\ apc = "start"
    /\ browser' = Finally(driver, browser)
    /\ ReturnNone
    /\ AutomatorUnchanged

(* Line 617: setup_driver returns the driver of a browser it launched.     *)
SetupDriver ==
    /\ apc = "start"
    /\ apc' = "login"
    /\ driver' = "driver"
    /\ browser' = "open"
    /\ UNCHANGED <<json_file, phase, total_tweets, cpc, output_file>>
    /\ AutomatorUnchanged

(* Line 617: setup_driver raises before a browser is there.                *)
SetupDriverRaises ==
    /\ apc = "start"
    /\ browser' = Finally(driver, browser)
    /\ ReturnNone
    /\ AutomatorUnchanged

(* Line 621: login returns True.                                           *)
LoginSucceeds ==
    /\ apc = "login"
    /\ apc' = "scraping"
    /\ cpc' = "scanning"
    /\ UNCHANGED <<driver, browser, json_file, phase, total_tweets, output_file>>
    /\ AutomatorUnchanged

(* Lines 621-623: login returns False.                                     *)
LoginFails ==
    /\ apc = "login"
    /\ browser' = Finally(driver, browser)
    /\ ReturnNone
    /\ AutomatorUnchanged

(* The session is lost while login or scrape_profile runs: the call        *)
(* raises, line 646 catches it, and the quit of line 653 raises too.       *)
SessionLost ==
    /\ apc \in {"login", "scraping"}
    /\ browser' = Finally(driver, "dead")
    /\ ReturnNone
    /\ AutomatorUnchanged

(* Line 627: scrape_profile raises with the browser still there.           *)
ScrapeProfileRaises ==
    /\ apc = "scraping"
    /\ browser' = Finally(driver, browser)
    /\ apc' = "returned"
    /\ json_file' = None
    /\ cpc' = "returned"
    /\ \E n \in 0..limit : total_tweets' = n
    /\ UNCHANGED <<driver, phase, output_file>>
    /\ AutomatorUnchanged

(* Line 627: scrape_profile returns, having captured up to limit posts.    *)
ScrapeProfileReturns ==
    /\ apc = "scraping"
    /\ apc' = "closing"
    /\ cpc' = "scraped"
    /\ \E n \in 0..limit : total_tweets' = n
    /\ UNCHANGED <<driver, browser, json_file, phase, output_file>>
    /\ AutomatorUnchanged

(* The browser left open at line 631.                                      *)
QuitSkipped(b) == b

(* driver.quit() on a browser that is there.                               *)
Quit(b) == IF b = "open" THEN "closed" ELSE b

(* Lines 630-632: driver.quit(); driver = None.                            *)
CloseBrowser ==
    /\ apc = "closing"
    /\ browser' = Quit(browser)
    /\ driver' = None
    /\ apc' = "parsing"
    /\ UNCHANGED <<json_file, phase, total_tweets, cpc, output_file>>
    /\ AutomatorUnchanged

(* Line 631 when the session was lost after scrape_profile returned:       *)
(* driver.quit() raises, line 646 catches it, line 653 raises again.       *)
CloseBrowserRaises ==
    /\ apc = "closing"
    /\ browser' = Finally(driver, "dead")
    /\ ReturnNone
    /\ AutomatorUnchanged

(* Line 636: mega_parse returns, with the corpus written or with the save  *)
(* error of its lines 111-116 caught.                                      *)
MegaParseReturns ==
    /\ apc = "parsing"
    /\ apc' = "parsed"
    /\ cpc' = "parsed"
    /\ \/ /\ phase' = "saved"
          /\ output_file' = "complete"
       \/ /\ phase' = "unsaved"
          /\ output_file' \in {output_file, "partial"}
    /\ UNCHANGED <<driver, browser, json_file, total_tweets>>
    /\ AutomatorUnchanged

(* Line 636: mega_parse raises (a sort compares a naive and an aware date). *)
MegaParseRaised ==
    /\ apc = "parsing"
    /\ phase' = "raised"
    /\ browser' = Finally(driver, browser)
    /\ apc' = "returned"
    /\ cpc' = "returned"
    /\ json_file' = None
    /\ UNCHANGED <<driver, total_tweets, output_file>>
    /\ AutomatorUnchanged

(* Lines 638-644, then the finally block.                                  *)
ReturnJsonFile ==
    /\ apc = "parsed"
    /\ apc' = "returned"
    /\ cpc' = "returned"
    /\ json_file' = IF output_file # "absent"
                    THEN OutputName(target_user) ELSE None
    /\ browser' = Finally(driver, browser)
    /\ UNCHANGED <<driver, phase, total_tweets, output_file>>
    /\ AutomatorUnchanged

AutomatorNext ==
    LoadCredentialsFails \/ SetupDriver \/ SetupDriverRaises \/ LoginSucceeds
        \/ LoginFails \/ SessionLost \/ ScrapeProfileRaises
        \/ ScrapeProfileReturns \/ CloseBrowser \/ CloseBrowserRaises
        \/ MegaParseReturns \/ MegaParseRaised \/ ReturnJsonFile

SpecAutomator == AutomatorInit /\ [][AutomatorNext]_vars

scroll_max_retries == 10

scroll_base_delay == 1

load_base_delay == 30

RECURSIVE Pow2(_)
Pow2(n) == IF n = 0 THEN 1 ELSE 2 * Pow2(n - 1)

RateInit ==
    /\ ExtIdle
    /\ ParseIdle
    /\ CaptureIdle
    /\ AutomatorIdle
    /\ phase = "idle"
    /\ all_tweets = <<>>
    /\ file_thread_id = None
    /\ corpus = <<>>
    /\ seen_timeline = {}
    /\ seen_thread = {}
    /\ seen_detail = {}

RateUnchanged ==
    UNCHANGED <<recVars, parseVars, capVars, autoVars, loopVars, driverVars,
                windowVars, panelVars>>

(* Lines 346-352: the search page of a window is loaded.                   *)
PageLoaded ==
    /\ rpc = "batch"
    /\ rpc' = "loading"
    /\ rate_limit_retries' = 0
    /\ isScroll' = FALSE
    /\ UNCHANGED <<scroll_rate_limit_retries, retry_count, max_retries,
                   wait_time, recovered>>
    /\ RateUnchanged

(* Lines 353-354: check_rate_limit is true, handle_rate_limit is called    *)
(* with rate_limit_retries.                                                *)
LoadLimited ==
    /\ rpc = "loading"
    /\ rpc' = "handle"
    /\ retry_count' = rate_limit_retries
    /\ max_retries' = default_max_retries
    /\ UNCHANGED <<isScroll, rate_limit_retries, scroll_rate_limit_retries,
                   wait_time, recovered>>
    /\ RateUnchanged

(* What follows the loop of lines 353-360: the scroll loop of the window   *)
(* begins (lines 370-372), or the window has no results (lines 363-368).   *)
AfterLoading ==
    \/ /\ rpc' = "scroll"
       /\ scroll_rate_limit_retries' = 0
    \/ /\ rpc' = "batch"
       /\ UNCHANGED scroll_rate_limit_retries

(* Line 353 false.                                                         *)
LoadNotLimited ==
    /\ rpc = "loading"
    /\ AfterLoading
    /\ UNCHANGED <<isScroll, rate_limit_retries, retry_count, max_retries,
                   wait_time, recovered>>
    /\ RateUnchanged

(* Lines 456-459: a rate limit after a scroll.                             *)
ScrollLimited ==
    /\ rpc = "scroll"
    /\ rpc' = "handle"
    /\ isScroll' = TRUE
    /\ retry_count' = scroll_rate_limit_retries
    /\ max_retries' = default_max_retries
    /\ UNCHANGED <<rate_limit_retries, scroll_rate_limit_retries, wait_time,
                   recovered>>
    /\ RateUnchanged

(* Lines 465-466: no rate limit after a scroll; the scroll loop goes on or *)
(* the window is finished.                                                 *)
ScrollNotLimited ==
    /\ rpc = "scroll"
    /\ scroll_rate_limit_retries' = 0
    /\ rpc' \in {"scroll", "batch"}
    /\ UNCHANGED <<isScroll, rate_limit_retries, retry_count, max_retries,
                   wait_time, recovered>>
    /\ RateUnchanged

(* Line 89: retry_count >= max_retries, with max_retries as it was passed  *)
(* (the adjustment of line 97 comes after the test).                       *)
GivesUp(n, m) == n >= m

(* Lines 89-91.                                                            *)
MaxRetriesExceeded ==
    /\ rpc = "handle"
    /\ GivesUp(retry_count, max_retries)
    /\ rpc' = "done"
    /\ recovered' = FALSE
    /\ UNCHANGED <<isScroll, rate_limit_retries, scroll_rate_limit_retries,
                   retry_count, max_retries, wait_time>>
    /\ RateUnchanged

(* Lines 93-106: the backoff.                                              *)
Backoff ==
    /\ rpc = "handle"
    /\ ~GivesUp(retry_count, max_retries)
    /\ wait_time' = (IF isScroll THEN scroll_base_delay ELSE load_base_delay)
                        * Pow2(retry_count)
    /\ max_retries' = IF isScroll THEN scroll_max_retries ELSE max_retries
    /\ rpc' = "waited"
    /\ UNCHANGED <<isScroll, rate_limit_retries, scroll_rate_limit_retries,
                   retry_count, recovered>>
    /\ RateUnchanged

(* Lines 108-137: Retry is clicked or the page is refreshed.               *)
Recovers ==
    /\ rpc = "waited"
    /\ rpc' = "done"
    /\ recovered' = TRUE
    /\ UNCHANGED <<isScroll, rate_limit_retries, scroll_rate_limit_retries,
                   retry_count, max_retries, wait_time>>
    /\ RateUnchanged

(* Lines 130-139: the click and the fallback refresh both raise.           *)
RecoveryFails ==
    /\ rpc = "waited"
    /\ rpc' = "done"
    /\ recovered' = FALSE
    /\ UNCHANGED <<isScroll, rate_limit_retries, scroll_rate_limit_retries,
                   retry_count, max_retries, wait_time>>
    /\ RateUnchanged

(* Lines 354-360 with the value returned to the loop after loading.        *)
ReturnsToLoad ==
    /\ rpc = "done"
    /\ ~isScroll
    /\ IF recovered
       THEN /\ rate_limit_retries' = rate_limit_retries + 1
            /\ rpc' = "loading"
            /\ UNCHANGED scroll_rate_limit_retries
       ELSE /\ AfterLoading
            /\ UNCHANGED rate_limit_retries
    /\ UNCHANGED <<isScroll, retry_count, max_retries, wait_time, recovered>>
    /\ RateUnchanged

(* Lines 459-464 with the value returned to the scroll loop.               *)
ReturnsToScroll ==
    /\ rpc = "done"
    /\ isScroll
    /\ IF recovered
       THEN /\ scroll_rate_limit_retries' = scroll_rate_limit_retries + 1
            /\ rpc' = "scroll"
       ELSE /\ rpc' = "batch"
            /\ UNCHANGED scroll_rate_limit_retries
    /\ UNCHANGED <<isScroll, rate_limit_retries, retry_count, max_retries,
                   wait_time, recovered>>
    /\ RateUnchanged

RateNext ==
    PageLoaded \/ LoadLimited \/ LoadNotLimited \/ ScrollLimited
        \/ ScrollNotLimited \/ MaxRetriesExceeded \/ Backoff \/ Recovers
        \/ RecoveryFails \/ ReturnsToLoad \/ ReturnsToScroll

SpecRateLimit == RateInit /\ [][RateNext]_vars

(* C28: handle_rate_limit returns False at once exactly when retry_count   *)
(* is at least 10 while scrolling and at least 5 otherwise; below that it  *)
(* waits 2^retry_count seconds while scrolling and 30 * 2^retry_count      *)
(* seconds otherwise.                                                      *)
C28_RetryBudget ==
    [][rpc = "handle" =>
          /\ (rpc' = "done" /\ ~recovered') <=>
                 retry_count >= (IF isScroll THEN 10 ELSE 5)
          /\ rpc' = "waited" =>
                 wait_time' = (IF isScroll THEN 1 ELSE 30) * Pow2(retry_count)]_vars

(***************************************************************************)
(* The date-window loop of start_scraping (lines 330-492).  A datetime is  *)
(* its proleptic Gregorian ordinal (day 1 is 0001-01-01, datetime.min);    *)
(* subtracting a timedelta that leads below day 1 raises OverflowError.    *)
(* wpc is "window_test" at the test of line 336, "window" when the search  *)
(* page of the window is loaded (line 363), "finished" after a break or a  *)
(* failed test, "overflow" after the OverflowError and "critical_error"    *)
(* after another exception, both caught at line 494.                       *)
(***************************************************************************)
BATCH_DAYS == 60

first_year == 2006

(* datetime.now() on the day of the run: 2026-11-01.                       *)
Today == 739921

(* datetime.year of an ordinal.                                            *)
Year(o) ==
    LET n0 == o - 1
        n400 == n0 \div 146097
        r400 == n0 % 146097
        n100 == r400 \div 36524
        r100 == r400 % 36524
        n4 == r100 \div 1461
        r4 == r100 % 1461
        n1 == r4 \div 365
        y == n400 * 400 + n100 * 100 + n4 * 4 + n1 + 1
    IN  IF n1 = 4 \/ n100 = 4 THEN y - 1 ELSE y

(* Lines 330-334; scraped_data may have been loaded from an earlier run.   *)
WindowInit ==
    /\ LoopIdle
    /\ DriverIdle
    /\ RateIdle
    /\ PanelIdle
    /\ ParseIdle
    /\ CaptureIdle
    /\ AutomatorIdle
    /\ phase = "idle"
    /\ all_tweets = <<>>
    /\ file_thread_id = None
    /\ corpus = <<>>
    /\ seen_timeline = {}
    /\ seen_thread = {}
    /\ seen_detail = {}
    /\ wpc = "window_test"
    /\ current_date = Today
    /\ end_date = Today - BATCH_DAYS
    /\ TOTAL_LIMIT \in 1..MaxLimit
    /\ total_collected \in 0..MaxLimit

WindowUnchanged ==
    UNCHANGED <<recVars, parseVars, capVars, autoVars, loopVars, driverVars,
                rateVars, panelVars, TOTAL_LIMIT>>

(* Line 336 true, lines 337-360: the search page of the window is loaded.  *)
LoadWindow ==
    /\ wpc = "window_test"
    /\ total_collected < TOTAL_LIMIT
    /\ wpc' = "window"
    /\ UNCHANGED <<current_date, end_date, total_collected>>
    /\ WindowUnchanged

(* Line 336 false.                                                         *)
WindowTestFails ==
    /\ wpc = "window_test"
    /\ total_collected >= TOTAL_LIMIT
    /\ wpc' = "finished"
    /\ UNCHANGED <<current_date, end_date, total_collected>>
    /\ WindowUnchanged

(* "current_date = end_date; end_date = current_date - timedelta(60)",     *)
(* lines 366-367 and 483-484, when the subtraction does not raise.         *)
MoveWindow ==
    /\ end_date - BATCH_DAYS >= 1
    /\ current_date' = end_date
    /\ end_date' = end_date - BATCH_DAYS

(* Lines 363-368: the window reports no results; continue.                 *)
NoResults ==
    /\ wpc = "window"
    /\ MoveWindow
    /\ wpc' = "window_test"
    /\ UNCHANGED total_collected
    /\ WindowUnchanged

(* Lines 363-367 when line 367 raises OverflowError (caught at line 494).  *)
NoResultsOverflow ==
    /\ wpc = "window"
    /\ end_date - BATCH_DAYS < 1
    /\ current_date' = end_date
    /\ wpc' = "overflow"
    /\ UNCHANGED <<end_date, total_collected>>
    /\ WindowUnchanged

(* Lines 370-492: the window is scrolled through, k new posts are          *)
(* collected (the loops stop at the limit), the data is saved, the window  *)
(* moves, and the tests of lines 487 and 491 are made.                     *)
WindowScraped ==
    /\ wpc = "window"
    /\ \E k \in 0..(TOTAL_LIMIT - total_collected) :
          total_collected' = total_collected + k
    /\ MoveWindow
    /\ wpc' = IF Year(end_date') < first_year THEN "finished"
              ELSE IF total_collected' >= TOTAL_LIMIT THEN "finished"
              ELSE "window_test"
    /\ WindowUnchanged

(* An exception of the driver inside the loop, caught at line 494.         *)
CriticalError ==
    /\ wpc = "window"
    /\ wpc' = "critical_error"
    /\ \E k \in 0..(TOTAL_LIMIT - total_collected) :
          total_collected' = total_collected + k
    /\ UNCHANGED <<current_date, end_date>>
    /\ WindowUnchanged

WindowNext ==
    LoadWindow \/ WindowTestFails \/ NoResults \/ NoResultsOverflow
        \/ WindowScraped \/ CriticalError

SpecWindow == WindowInit /\ [][WindowNext]_vars

(* C29: no round of the date-window loop begins with the window start      *)
(* before 2006 or with the limit reached, the window start only moves      *)
(* back, and the loop does not end in the OverflowError of the date        *)
(* arithmetic.                                                             *)
C29_WindowLoopStops ==
    /\ wpc = "window" =>
          /\ Year(end_date) >= 2006
          /\ total_collected < TOTAL_LIMIT
    /\ wpc # "overflow"
    /\ end_date < current_date

(***************************************************************************)
(* A run started from the panel: App._on_start_click (panel.py lines       *)
(* 478-524) has saved the configuration, disabled the button and started   *)
(* the worker thread run_scraper, which calls run_automator of             *)
(* twitter_login_scrape.py (lines 232-258).  The directory may hold the    *)
(* <username>_mega_scrape.json of an earlier run.  gpc is "worker" when    *)
(* the thread starts, "scraped" when run_automator is over (line 493),     *)
(* "pdf_decided" at line 516 and "finished" when the thread has ended.     *)
(***************************************************************************)
PanelInit ==
    /\ LoopIdle
    /\ DriverIdle
    /\ RateIdle
    /\ ParseIdle
    /\ CaptureIdle
    /\ phase = "idle"
    /\ all_tweets = <<>>
    /\ file_thread_id = None
    /\ corpus = <<>>
    /\ seen_timeline = {}
    /\ seen_thread = {}
    /\ seen_detail = {}
    /\ wpc = "idle"
    /\ current_date = 1
    /\ end_date = 1
    /\ total_collected = 0
    /\ TOTAL_LIMIT \in 1..MaxLimit
    /\ target_user \in Usernames
    /\ output_file \in {"absent", "complete", "partial"}
    /\ output_run = 0
    /\ json_file = "unset"
    /\ logged = {}
    /\ gpc = "worker"
    /\ json_path = None
    /\ next_btn = "disabled"
    /\ pdf = "not_started"

PanelUnchanged ==
    UNCHANGED <<recVars, parseVars, capVars, loopVars, driverVars, rateVars,
                current_date, end_date, TOTAL_LIMIT, target_user, logged>>

(* What run_automator of twitter_login_scrape hands back: every path ends  *)
(* in a bare return or at the end of the function (lines 239, 246, 250,    *)
(* 254-258), and start_scraping returns nothing.                           *)
RunAutomatorResult(username) == None

(* run_automator returns before start_scraping: no configuration, no       *)
(* credentials, no browser, or the login failed (lines 238-258).           *)
AutomatorAborts ==
    /\ gpc = "worker"
    /\ gpc' = "scraped"
    /\ json_path' = RunAutomatorResult(target_user)
    /\ json_file' = RunAutomatorResult(target_user)
    /\ UNCHANGED <<wpc, total_collected, output_file, output_run, next_btn, pdf>>
    /\ PanelUnchanged

(* start_scraping goes through its date windows, collects n posts and      *)
(* writes them with save_data (lines 481, 496); run_automator returns.     *)
ScraperSaves ==
    /\ gpc = "worker"
    /\ gpc' = "scraped"
    /\ \E n \in 0..TOTAL_LIMIT : total_collected' = n
    /\ wpc' \in {"finished", "critical_error"}
    /\ output_file' = "complete"
    /\ output_run' = run + 1
    /\ json_path' = RunAutomatorResult(target_user)
    /\ json_file' = RunAutomatorResult(target_user)
    /\ UNCHANGED <<next_btn, pdf>>
    /\ PanelUnchanged

(* An exception leaves run_automator (save_data or _driver.quit() raises   *)
(* in start_scraping's handlers): line 493 logs it.                        *)
ScraperRaises ==
    /\ gpc = "worker"
    /\ gpc' = "scraped"
    /\ wpc' = "critical_error"
    /\ output_file' \in {output_file, "partial"}
    /\ json_file' = "raised"
    /\ UNCHANGED <<total_collected, output_run, json_path, next_btn, pdf>>
    /\ PanelUnchanged

(* Lines 496-514: generate_pdf on json_path, which is then deleted, or     *)
(* the step is skipped.                                                    *)
PdfGeneration ==
    /\ gpc = "scraped"
    /\ gpc' = "pdf_decided"
    /\ IF json_path # None /\ output_file # "absent"
       THEN \/ /\ pdf' = "done"
               /\ output_file' \in {"absent", output_file}
            \/ /\ pdf' = "failed"
               /\ UNCHANGED output_file
       ELSE UNCHANGED <<pdf, output_file>>
    /\ UNCHANGED <<wpc, total_collected, output_run, json_file, json_path,
                   next_btn>>
    /\ PanelUnchanged

(* Lines 517-521: the button is enabled again.                             *)
ReEnableButton ==
    /\ gpc = "pdf_decided"
    /\ gpc' = "finished"
    /\ next_btn' = "normal"
    /\ UNCHANGED <<wpc, total_collected, output_file, output_run, json_file,
                   json_path, pdf>>
    /\ PanelUnchanged

PanelNext ==
    AutomatorAborts \/ ScraperSaves \/ ScraperRaises \/ PdfGeneration
        \/ ReEnableButton

SpecPanel == PanelInit /\ [][PanelNext]_vars

(* C30: once the worker has passed the PDF step, PDF generation was        *)
(* started if the scraper of this run returned normally after saving its   *)
(* JSON output with at least one post; it was not started if the scraper   *)
(* saved nothing; and when the worker has finished the button is enabled.  *)
C30_PdfAfterScrape ==
    /\ gpc \in {"pdf_decided", "finished"} =>
          /\ (output_run = run + 1 /\ wpc = "finished" /\ total_collected > 0) =>
                 pdf # "not_started"
          /\ output_run # run + 1 => pdf = "not_started"
    /\ gpc = "finished" => next_btn = "normal"

====
